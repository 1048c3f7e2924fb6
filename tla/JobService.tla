------------------------------ MODULE JobService ------------------------------
(***************************************************************************)
(* The jobs of ManagementService (server/service.py): submit, the _run     *)
(* thread of each job with the workers of its targets, cancellation,       *)
(* close, and what __init__ makes of the stored records after a crash.     *)
(*                                                                         *)
(* Each critical section under service.lock is one step.  EncryptedStore   *)
(* replaces a file and then syncs its directories: a write that raises may *)
(* have left the old record or the new one.                                *)
(*                                                                         *)
(* The executor (CPython's ThreadPoolExecutor) queues an item before it     *)
(* starts a thread for it: an item whose submit raised may still be run.   *)
(*                                                                         *)
(* Left out: what the operations do, plans and baselines, equipment books, *)
(* spreading, and the locks and slots a target takes.                      *)
(***************************************************************************)
EXTENDS Naturals, FiniteSets

CONSTANTS
  Jobs, Hosts,      \* every job has all hosts as its targets
  Filed,            \* kinds whose results are written to a file of their own
  Secret,           \* kinds submitted with a root password
  ActiveLimit,      \* jobs queued or running at once, and threads of the pool (2)
  MaxFaults,        \* bound: storage writes and thread starts that fail
  MaxCrashes,       \* bound: crashes
  MaxUnreadable     \* bound: job files found unreadable at a restart

ASSUME JobsAssumption ==
  /\ Filed \subseteq Jobs /\ Secret \subseteq Jobs /\ IsFiniteSet(Jobs)
  /\ ActiveLimit \in Nat /\ MaxFaults \in Nat /\ MaxCrashes \in Nat /\ MaxUnreadable \in Nat

VARIABLES
  up, closed,       \* the service runs; close was called
  recovery,         \* history_errors is not empty
  status, cancel,   \* job["status"] and job["cancel_requested"]
  results,          \* job["results"]: the outcome recorded for each host
  disk,             \* jobs/<id>.json.enc
  fate,             \* what the caller of submit was told
  pool,             \* threads the pool has started
  thread,           \* where _run is
  target,           \* the worker of each host, or the outcome it returned
  secrets,          \* command_passwords
  runs,             \* ghost: how often an operation was started
  faults, crashes

memory == <<closed, recovery, status, cancel, results, pool, thread, target, secrets>>
vars == <<up, memory, disk, fate, runs, faults, crashes>>

-------------------------------------------------------------------------------
(* Types *)

Outcome == {"completed", "partial", "failed", "cancelled"}
Unfinished == {"queued", "running"}
Status == Unfinished \cup Outcome \cup {"none", "interrupted", "unreadable"}
Results == [Hosts -> Outcome \cup {"none"}]
Record == [status : Status, results : Results]
Worker == {"none", "todo", "running", "taken"} \cup Outcome

NoResults == [h \in Hosts |-> "none"]
Fresh(s) == [status |-> s, results |-> NoResults]
NoWorkers == [h \in Hosts |-> "none"]

TypeOK ==
  /\ up \in BOOLEAN /\ closed \in BOOLEAN /\ recovery \in BOOLEAN
  /\ status \in [Jobs -> Status]
  /\ cancel \in [Jobs -> BOOLEAN]
  /\ results \in [Jobs -> Results]
  /\ disk \in [Jobs -> Record]
  /\ fate \in [Jobs -> {"none", "accepted", "refused", "rejected"}]
  /\ pool \in Nat
  /\ thread \in [Jobs -> {"none", "queued", "running", "stopping", "ending"}]
  /\ target \in [Jobs -> [Hosts -> Worker]]
  /\ secrets \subseteq Secret
  /\ runs \in [Jobs -> [Hosts -> Nat]]
  /\ faults \in Nat /\ crashes \in Nat

Init ==
  /\ up = TRUE /\ closed = FALSE /\ recovery = FALSE
  /\ status = [j \in Jobs |-> "none"]
  /\ cancel = [j \in Jobs |-> FALSE]
  /\ results = [j \in Jobs |-> NoResults]
  /\ disk = [j \in Jobs |-> Fresh("none")]
  /\ fate = [j \in Jobs |-> "none"]
  /\ pool = 0
  /\ thread = [j \in Jobs |-> "none"]
  /\ target = [j \in Jobs |-> NoWorkers]
  /\ secrets = {}
  /\ runs = [j \in Jobs |-> [h \in Hosts |-> 0]]
  /\ faults = 0 /\ crashes = 0

-------------------------------------------------------------------------------
(* Storage: _save writes the job as it is in memory after the step.        *)

Image(j) == [status |-> status'[j], results |-> results'[j]]

Saved(j) ==
  /\ disk' = [disk EXCEPT ![j] = Image(j)]
  /\ UNCHANGED faults

Fails ==
  /\ faults < MaxFaults
  /\ faults' = faults + 1

SaveFails(j) ==
  /\ Fails
  /\ disk' = disk \/ disk' = [disk EXCEPT ![j] = Image(j)]

-------------------------------------------------------------------------------
(* submit *)

Active(j) == status[j] \in Unfinished

Admits(j) ==
  /\ up /\ ~recovery /\ ~closed /\ fate[j] = "none"
  /\ Cardinality({k \in Jobs : Active(k)}) < ActiveLimit

Deposit(j) == {j} \cap Secret

(* submit of the pool starts a thread, up to the limit, unless it believes *)
(* that one is idle.                                                       *)
Grow == pool' \in {pool, pool + 1} \cap 1..ActiveLimit

MutantSubmit(j) ==
  /\ Admits(j)
  /\ status' = [status EXCEPT ![j] = "queued"]
  /\ thread' = [thread EXCEPT ![j] = "queued"]
  /\ secrets' = secrets \cup Deposit(j)
  /\ fate' = [fate EXCEPT ![j] = "accepted"]
  /\ Grow
  /\ UNCHANGED <<results, disk, faults>>
  /\ UNCHANGED <<up, closed, recovery, cancel, target, runs, crashes>>

(* The record is saved before the pool gets the job.                       *)
Submit(j) ==
  /\ Admits(j)
  /\ status' = [status EXCEPT ![j] = "queued"]
  /\ thread' = [thread EXCEPT ![j] = "queued"]
  /\ secrets' = secrets \cup Deposit(j)
  /\ fate' = [fate EXCEPT ![j] = "accepted"]
  /\ Grow
  /\ UNCHANGED results
  /\ Saved(j)
  /\ UNCHANGED <<up, closed, recovery, cancel, target, runs, crashes>>

MutantSubmitUnsaved(j) ==
  /\ Admits(j)
  /\ Fails
  /\ UNCHANGED disk
  /\ status' = [status EXCEPT ![j] = "queued"]
  /\ thread' = [thread EXCEPT ![j] = "queued"]
  /\ fate' = [fate EXCEPT ![j] = "refused"]
  /\ Grow
  /\ UNCHANGED <<up, closed, recovery, cancel, results, target, secrets, runs, crashes>>

(* _save raises: the job is dropped, but its record may be there.          *)
SubmitUnsaved(j) ==
  /\ Admits(j)
  /\ Fails
  /\ \/ UNCHANGED disk
     \/ disk' = [disk EXCEPT ![j] = Fresh("queued")]
  /\ fate' = [fate EXCEPT ![j] = "refused"]
  /\ UNCHANGED <<up, memory, runs, crashes>>

MutantSubmitRejected(j) ==
  /\ Admits(j)
  /\ Fails
  /\ status' = [status EXCEPT ![j] = "queued"]
  /\ disk' = [disk EXCEPT ![j] = Fresh("queued")]
  /\ fate' = [fate EXCEPT ![j] = "rejected"]
  /\ UNCHANGED <<up, closed, recovery, cancel, results, pool, thread, target, secrets, runs,
                 crashes>>

(* The pool raises: the job stays on record as failed, if that save works; *)
(* if it does not, the record says queued or failed.  A pool that is shut  *)
(* down has not taken the item; one that could not start a thread has it   *)
(* in its queue, where a thread it has or starts later will find it.       *)
SubmitRejected(j) ==
  /\ Admits(j)
  /\ Fails
  /\ status' = [status EXCEPT ![j] = "failed"]
  /\ \/ disk' = [disk EXCEPT ![j] = Fresh("failed")]
     \/ faults' < MaxFaults /\ disk' = [disk EXCEPT ![j] = Fresh("queued")]
  /\ fate' = [fate EXCEPT ![j] = "rejected"]
  /\ \/ UNCHANGED thread
     \/ pool < ActiveLimit /\ thread' = [thread EXCEPT ![j] = "queued"]
  /\ UNCHANGED <<up, closed, recovery, cancel, results, pool, target, secrets, runs, crashes>>

(* job.cancel: the request holds even if saving it raises.                 *)
Cancel(j) ==
  /\ up /\ Active(j) /\ ~cancel[j]
  /\ cancel' = [cancel EXCEPT ![j] = TRUE]
  /\ UNCHANGED <<status, results>>
  /\ Saved(j) \/ SaveFails(j)
  /\ UNCHANGED <<up, closed, recovery, fate, pool, thread, target, secrets, runs, crashes>>

-------------------------------------------------------------------------------
(* _run *)

(* A pool thread takes the job, be it shown as failed; if that cannot be   *)
(* saved the job stops before any target, and if a thread for its targets  *)
(* cannot be started it stops with those that were queued by then.         *)
Run(j) ==
  /\ thread[j] = "queued"
  /\ Cardinality({k \in Jobs : thread[k] \in {"running", "stopping", "ending"}}) < pool
  /\ status' = [status EXCEPT ![j] = "running"]
  /\ UNCHANGED results
  /\ \/ /\ Saved(j)
        /\ thread' = [thread EXCEPT ![j] = "running"]
        /\ target' = [target EXCEPT ![j] = [h \in Hosts |-> "todo"]]
     \/ /\ SaveFails(j)
        /\ thread' = [thread EXCEPT ![j] = "stopping"]
        /\ UNCHANGED target
     \/ /\ Fails /\ disk' = [disk EXCEPT ![j] = Image(j)]
        /\ thread' = [thread EXCEPT ![j] = "stopping"]
        /\ \E begun \in SUBSET Hosts :
             target' = [target EXCEPT ![j] = [h \in Hosts |-> IF h \in begun THEN "todo" ELSE "none"]]
  /\ UNCHANGED <<up, closed, recovery, cancel, fate, pool, secrets, runs, crashes>>

(* A worker reaches its target; a cancelled job does not start it.  The    *)
(* workers of a job that is stopping go on.                                *)
Begin(j, h) ==
  /\ thread[j] \in {"running", "stopping"} /\ target[j][h] = "todo"
  /\ IF cancel[j]
     THEN target' = [target EXCEPT ![j][h] = "cancelled"] /\ UNCHANGED runs
     ELSE /\ target' = [target EXCEPT ![j][h] = "running"]
          /\ runs' = [runs EXCEPT ![j][h] = @ + 1]
  /\ UNCHANGED <<up, closed, recovery, status, cancel, results, pool, thread, secrets, disk, fate,
                 faults, crashes>>

(* The operation ends; a device's queue may withdraw a cancelled one.      *)
Return(j, h) ==
  /\ target[j][h] = "running"
  /\ \E o \in Outcome :
       /\ o = "cancelled" => cancel[j]
       /\ target' = [target EXCEPT ![j][h] = o]
  /\ UNCHANGED <<up, closed, recovery, status, cancel, results, pool, thread, secrets, disk, fate,
                 runs, faults, crashes>>

(* _run takes a returned outcome in and saves the job.  If the result file *)
(* or the job cannot be written, no further outcome is taken in.           *)
Collect(j, h) ==
  /\ thread[j] = "running" /\ target[j][h] \in Outcome
  /\ target' = [target EXCEPT ![j][h] = "taken"]
  /\ UNCHANGED status
  /\ \/ /\ results' = [results EXCEPT ![j][h] = target[j][h]]
        /\ \/ Saved(j) /\ UNCHANGED thread
           \/ SaveFails(j) /\ thread' = [thread EXCEPT ![j] = "stopping"]
     \/ /\ j \in Filed /\ Fails /\ UNCHANGED <<results, disk>>
        /\ thread' = [thread EXCEPT ![j] = "stopping"]
  /\ UNCHANGED <<up, closed, recovery, cancel, pool, secrets, fate, runs, crashes>>

Verdict(j) ==
  IF cancel[j] THEN "cancelled"
  ELSE IF \A h \in Hosts : results[j][h] = "failed" THEN "failed"
  ELSE IF \E h \in Hosts : results[j][h] \in {"failed", "partial"} THEN "partial"
  ELSE "completed"

(* The job is shown as over before the save that may still raise.          *)
Conclude(j) ==
  /\ thread[j] = "running" /\ \A h \in Hosts : target[j][h] = "taken"
  /\ status' = [status EXCEPT ![j] = Verdict(j)]
  /\ UNCHANGED results
  /\ \/ Saved(j) /\ thread' = [thread EXCEPT ![j] = "ending"]
     \/ SaveFails(j) /\ thread' = [thread EXCEPT ![j] = "stopping"]
  /\ UNCHANGED <<up, closed, recovery, cancel, pool, target, secrets, fate, runs, crashes>>

MutantStopUnfinished(j) ==
  /\ thread[j] = "stopping"
  /\ status' = [status EXCEPT ![j] = "failed"]
  /\ UNCHANGED results
  /\ Saved(j) \/ SaveFails(j)
  /\ thread' = [thread EXCEPT ![j] =
       IF \E h \in Hosts : target[j][h] \in {"todo", "running"} THEN "stopping" ELSE "ending"]
  /\ UNCHANGED <<up, closed, recovery, cancel, pool, target, secrets, fate, runs, crashes>>

MutantStopVerdict(j) ==
  /\ thread[j] = "stopping" /\ \A h \in Hosts : target[j][h] \notin {"todo", "running"}
  /\ status' = [status EXCEPT ![j] = Verdict(j)]
  /\ UNCHANGED results
  /\ Saved(j) \/ SaveFails(j)
  /\ thread' = [thread EXCEPT ![j] = "ending"]
  /\ UNCHANGED <<up, closed, recovery, cancel, pool, target, secrets, fate, runs, crashes>>

(* The exception leaves the block that owns the workers only when all of   *)
(* them have returned; their outcomes are dropped.                         *)
Stop(j) ==
  /\ thread[j] = "stopping" /\ \A h \in Hosts : target[j][h] \notin {"todo", "running"}
  /\ status' = [status EXCEPT ![j] = "failed"]
  /\ UNCHANGED results
  /\ Saved(j) \/ SaveFails(j)
  /\ thread' = [thread EXCEPT ![j] = "ending"]
  /\ UNCHANGED <<up, closed, recovery, cancel, pool, target, secrets, fate, runs, crashes>>

MutantLeave(j) ==
  /\ thread[j] = "ending"
  /\ thread' = [thread EXCEPT ![j] = "none"]
  /\ target' = [target EXCEPT ![j] = NoWorkers]
  /\ UNCHANGED <<up, closed, recovery, status, cancel, results, pool, secrets, disk, fate, runs,
                 faults, crashes>>

(* finally: the password goes, the thread is free.                         *)
Leave(j) ==
  /\ thread[j] = "ending"
  /\ thread' = [thread EXCEPT ![j] = "none"]
  /\ target' = [target EXCEPT ![j] = NoWorkers]
  /\ secrets' = secrets \ {j}
  /\ UNCHANGED <<up, closed, recovery, status, cancel, results, pool, disk, fate, runs, faults,
                 crashes>>

-------------------------------------------------------------------------------
(* The life of the process *)

Close ==
  /\ up /\ ~closed
  /\ closed' = TRUE
  /\ UNCHANGED <<up, recovery, status, cancel, results, pool, thread, target, secrets, disk, fate,
                 runs, faults, crashes>>

(* Memory is gone; status is then what operators saw last.                 *)
Down ==
  /\ up' = FALSE
  /\ pool' = 0
  /\ thread' = [j \in Jobs |-> "none"]
  /\ target' = [j \in Jobs |-> NoWorkers]
  /\ secrets' = {}
  /\ UNCHANGED <<closed, recovery, status, cancel, results, disk, fate, runs, faults>>

(* close waits for the threads of the pool, which still run every job in   *)
(* its queue.                                                              *)
Exit ==
  /\ up /\ closed /\ (pool = 0 \/ \A j \in Jobs : thread[j] = "none")
  /\ Down /\ UNCHANGED crashes

Crash ==
  /\ up /\ crashes < MaxCrashes
  /\ crashes' = crashes + 1
  /\ Down

MutantRecovered(s) == s
Recovered(s) == IF s \in Unfinished THEN "interrupted" ELSE s

Mended(j) == [status |-> Recovered(disk[j].status), results |-> disk[j].results]

(* __init__ reads every record, marks the unfinished jobs interrupted and  *)
(* saves those.  A file it cannot read is left alone and blocks submit.    *)
Restart ==
  /\ ~up /\ up' = TRUE /\ closed' = FALSE
  /\ \E bad \in SUBSET {j \in Jobs : disk[j].status # "none"} :
       /\ Cardinality(bad) <= MaxUnreadable
       /\ recovery' = (bad # {})
       /\ status' = [j \in Jobs |->
            IF j \in bad THEN "unreadable" ELSE Recovered(disk[j].status)]
       /\ disk' = [j \in Jobs |-> IF j \in bad THEN disk[j] ELSE Mended(j)]
  /\ results' = [j \in Jobs |-> disk[j].results]
  /\ cancel' = [j \in Jobs |-> FALSE]
  /\ UNCHANGED <<pool, thread, target, secrets, fate, runs, faults, crashes>>

(* A save in __init__ raises: the service does not come up.                *)
RestartFails ==
  /\ ~up /\ Fails
  /\ \E S \in SUBSET Jobs :
       disk' = [j \in Jobs |-> IF j \in S THEN Mended(j) ELSE disk[j]]
  /\ UNCHANGED <<up, memory, fate, runs, crashes>>

Next ==
  \/ \E j \in Jobs :
       \/ Submit(j) \/ SubmitUnsaved(j) \/ SubmitRejected(j) \/ Cancel(j)
       \/ Run(j) \/ Conclude(j) \/ Stop(j) \/ Leave(j)
       \/ \E h \in Hosts : Begin(j, h) \/ Return(j, h) \/ Collect(j, h)
  \/ Close \/ Exit \/ Crash \/ Restart \/ RestartFails

Spec == Init /\ [][Next]_vars

(* Threads run, operations return (every transport has its timeouts), and  *)
(* the process manager restarts the service.                               *)
JobProgress ==
  /\ WF_vars(Restart)
  /\ \A j \in Jobs :
       /\ WF_vars(Run(j)) /\ WF_vars(Conclude(j)) /\ WF_vars(Stop(j)) /\ WF_vars(Leave(j))
       /\ \A h \in Hosts :
            WF_vars(Begin(j, h)) /\ WF_vars(Return(j, h)) /\ WF_vars(Collect(j, h))

FairSpec == Spec /\ JobProgress

-------------------------------------------------------------------------------
(* Properties *)

(* An active job has a thread that will end it: no failed save, rejected   *)
(* thread or restart leaves one of the two slots occupied for good         *)
(* (tests/test_job_submission.py).                                         *)
SlotAccounted(j) == up /\ Active(j) => thread[j] \in {"queued", "running", "stopping"}
SlotsAccounted == \A j \in Jobs : SlotAccounted(j)

(* A root password is kept only while the job that needs it has a thread.  *)
SecretAccounted(j) == j \in secrets => up /\ thread[j] # "none"
SecretsAccounted == \A j \in Jobs : SecretAccounted(j)

(* Neither of the two is ever left behind.                                 *)
NothingHeld == SlotsAccounted /\ SecretsAccounted

(* A submission that raised because its record could not be saved never    *)
(* touches a host, even if the record was written.  One the pool rejected  *)
(* may: see Run.                                                           *)
RefusedNeverRuns ==
  \A j \in Jobs : fate[j] = "refused" => \A h \in Hosts : runs[j][h] = 0

(* An accepted job is on record: it does not vanish in a crash.            *)
AcceptedIsSaved == \A j \in Jobs : fate[j] = "accepted" => disk[j].status # "none"

(* What the caller of submit was told is what happens.                     *)
WordIsKept == RefusedNeverRuns /\ AcceptedIsSaved

(* "completed" means what it says, in memory and on disk: the operation    *)
(* ran once on every host and came back complete.  "partial" and           *)
(* "cancelled" account for every host.                                     *)
Honest(s, rs, j) ==
  /\ s = "completed" => \A h \in Hosts : rs[h] = "completed" /\ runs[j][h] = 1
  /\ s \in {"partial", "cancelled"} => \A h \in Hosts : rs[h] # "none"
JobHonest(j) == Honest(status[j], results[j], j) /\ Honest(disk[j].status, disk[j].results, j)
StatusHonest == \A j \in Jobs : JobHonest(j)

(* Operations start at most once and only while the job is shown as        *)
(* active, and a job that is over stays over, but for one the pool         *)
(* rejected, which it may take up once until SERVER stops: see module      *)
(* JobLifecycle.                                                           *)
Phase(s, t) ==
  IF s = "none" THEN "none"
  ELSE IF s \in Unfinished THEN "active"
  ELSE IF t = "queued" THEN "rejected" ELSE "over"
Lifecycle == INSTANCE JobLifecycle WITH phase <- [j \in Jobs |-> Phase(status[j], thread[j])]
ImplementsLifecycle == Lifecycle!Spec

(* Every job that is shown as active comes to an end, over failed saves    *)
(* and crashes.                                                            *)
JobsConclude == \A j \in Jobs : Active(j) ~> ~Active(j)

(* The invariant behind these: where the thread of a job is agrees with    *)
(* what is shown of it, on record, and with what happened on the hosts.    *)
Returned(j) == \A h \in Hosts : target[j][h] \notin {"todo", "running"}
ThreadAgrees(j) ==
  /\ thread[j] # "none" => up /\ fate[j] \in {"accepted", "rejected"}
  /\ thread[j] = "queued" => status[j] = IF fate[j] = "accepted" THEN "queued" ELSE "failed"
  /\ thread[j] = "running" => status[j] = "running"
  /\ thread[j] = "stopping" => status[j] = "running" \/ (status[j] \in Outcome /\ Returned(j))
  /\ thread[j] = "ending" => status[j] \in Outcome /\ Returned(j)
RecordAgrees(j) ==
  /\ fate[j] = "none" => /\ status[j] = "none" /\ results[j] = NoResults
                         /\ disk[j] = Fresh("none")
  /\ fate[j] \in {"accepted", "rejected"} \/ status[j] # "none" => disk[j].status # "none"
HostAgrees(j, h) ==
  /\ runs[j][h] \in {0, 1}
  /\ runs[j][h] = 1 => fate[j] \in {"accepted", "rejected"} /\ thread[j] # "queued"
  /\ thread[j] \in {"none", "queued"} => target[j][h] = "none"
  /\ thread[j] = "queued" => results[j][h] = "none"
  /\ target[j][h] = "todo" => runs[j][h] = 0
  /\ target[j][h] \in {"running", "completed"} => runs[j][h] = 1
  /\ "completed" \in {results[j][h], disk[j].results[h]} => runs[j][h] = 1
  /\ thread[j] = "running" /\ target[j][h] = "taken" => results[j][h] # "none"
  /\ thread[j] = "running" /\ "cancelled" \in {target[j][h], results[j][h]} => cancel[j]
JobAgrees(j) ==
  /\ SlotAccounted(j) /\ SecretAccounted(j) /\ JobHonest(j)
  /\ ThreadAgrees(j) /\ RecordAgrees(j)
  /\ \A h \in Hosts : HostAgrees(j, h)
JobInv == TypeOK /\ \A j \in Jobs : JobAgrees(j)
===============================================================================

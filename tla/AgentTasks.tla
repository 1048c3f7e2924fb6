------------------------------ MODULE AgentTasks ------------------------------
(***************************************************************************)
(* The durable task queue SERVER keeps for one Windows CLIENT and the      *)
(* signed polling that drains it: AgentManager.prepare, execute, exchange  *)
(* and revoke in server/agents.py, the part of ManagementService._run that *)
(* drives them, and Loop and Task of windows-client/Agent.cs.              *)
(*                                                                         *)
(* SERVER side.  Every handler runs under service.lock, so it is one step, *)
(* except where task_ready.wait_for gives the lock up (a request is then   *)
(* "waiting").  DEVICE side.  The service is single threaded; a step ends  *)
(* at each Save() and at each call that may fail.                          *)
(*                                                                         *)
(* Left out: registration, challenges and signatures, CI observations, the *)
(* contents of tasks and results.  A task id is a hash of job, host and    *)
(* script (task_id), so a model value stands for it.                       *)
(***************************************************************************)
EXTENDS Naturals, Sequences, FiniteSets

CONSTANTS
  Tasks, Jobs,
  JobOf,            \* the job a task belongs to
  Batched,          \* kinds _run queues for every target before any worker starts
  Artifacts,        \* backup_artifact steps, queued one at a time
  Downloads,        \* transfers whose SERVER file is read when the task is offered
  None,
  ActiveLimit,      \* jobs queued or running at once (2 in submit)
  QueueLimit,       \* open tasks per device (4 in prepare)
  HistoryLimit,     \* acknowledged ids the device remembers (128 in Loop)
  MaxRequests,      \* bound: requests of the device SERVER has in hand at once
  MaxAgentCrashes,  \* bound: crashes of the device
  MaxServerCrashes  \* bound: crashes of SERVER

ASSUME KindsAssumption ==
  /\ JobOf \in [Tasks -> Jobs]
  /\ Batched \subseteq Tasks
  /\ Artifacts \subseteq Tasks \ Batched
  /\ Downloads \subseteq Batched
  /\ None \notin Tasks
  /\ IsFiniteSet(Tasks)
ASSUME LimitsAssumption ==
  /\ ActiveLimit \in Nat /\ QueueLimit \in Nat /\ HistoryLimit \in Nat \ {0}
  /\ MaxRequests \in Nat /\ MaxAgentCrashes \in Nat /\ MaxServerCrashes \in Nat

VARIABLES
  job,              \* service.jobs: status and cancel_requested of each job
  worker,           \* the worker thread of the job that handles this device
  st,               \* state of each task in the device's task file
  clock,            \* where now is between not_before and expires
  ahead,            \* <<t, u>>: t stands before u in the task list
  res,              \* agents/results/<id>: the recorded outcome
  revoked,          \* the device record's revoked flag
  reqs,             \* exchanges SERVER has in hand
  reply,            \* the answer on its way to, or held by, the device
  pc,               \* where the device's loop is
  started, outbox, history,   \* the device's durable State
  runs,             \* ghost: how often the device started each task
  forgotten,        \* ghost: tasks whose durable record the device dropped
                    \* unacknowledged, ignored at a restart, or aged out
  agentCrashes, serverCrashes

server == <<job, worker, st, clock, ahead, res, revoked>>
device == <<pc, started, outbox, history, runs, forgotten>>
faults == <<agentCrashes, serverCrashes>>
vars == <<server, reqs, reply, device, faults>>

-------------------------------------------------------------------------------
(* Types *)

JobState == {"none", "active", "cancelling", "over"}
TaskState == {"absent", "pending", "issued", "completed", "expired", "cancelled"}
Open == {"pending", "issued"}
Working == {"idle", "prepared", "waiting", "withdrawing"}
Verdicts == {"reported", "failed", "cancelled", "unissued", "unconnected",
             "unknown", "lost"}
Kind == {"done", "interrupted", "repeat"}
Report == [task : Tasks, kind : Kind]
NoReport == [task |-> None, kind |-> "none"]
Request == [result : Report \cup {NoReport}, ack : SUBSET Tasks,
            phase : {"arrived", "waiting"}, live : BOOLEAN]
Reply == [ack : SUBSET Tasks, task : Tasks \cup {None}]
NoReply == [ack |-> {}, task |-> None]
Remembered == {history[i] : i \in DOMAIN history}

TypeOK ==
  /\ job \in [Jobs -> JobState]
  /\ worker \in [Tasks -> Working \cup Verdicts]
  /\ st \in [Tasks -> TaskState]
  /\ clock \in [Tasks -> {"early", "due", "late"}]
  /\ ahead \subseteq Tasks \X Tasks
  /\ res \in [Tasks -> {"none"} \cup Kind]
  /\ revoked \in BOOLEAN
  /\ reqs \subseteq Request
  /\ reply \in Reply
  /\ pc \in {"idle", "waiting", "answered", "offered", "executing", "down"}
  /\ pc = "offered" => reply.task \in Tasks
  /\ started \in Tasks \cup {None}
  /\ pc = "executing" => started \in Tasks
  /\ outbox \in Report \cup {NoReport}
  /\ history \in Seq(Tasks) /\ Len(history) <= HistoryLimit
  /\ runs \in [Tasks -> Nat]
  /\ forgotten \subseteq Tasks
  /\ agentCrashes \in Nat /\ serverCrashes \in Nat

Init ==
  /\ job = [j \in Jobs |-> "none"]
  /\ worker = [t \in Tasks |-> "idle"]
  /\ st = [t \in Tasks |-> "absent"]
  /\ clock = [t \in Tasks |-> "due"]
  /\ ahead = {}
  /\ res = [t \in Tasks |-> "none"]
  /\ revoked = FALSE
  /\ reqs = {}
  /\ reply = NoReply
  /\ pc = "idle"
  /\ started = None
  /\ outbox = NoReport
  /\ history = <<>>
  /\ runs = [t \in Tasks |-> 0]
  /\ forgotten = {}
  /\ agentCrashes = 0 /\ serverCrashes = 0

-------------------------------------------------------------------------------
(* SERVER: jobs, the queue and the worker of each target *)

Active(j) == job[j] \in {"active", "cancelling"}

(* submit admits a job while fewer than two are queued or running.         *)
Submit(j) ==
  /\ job[j] = "none"
  /\ Cardinality({k \in Jobs : Active(k)}) < ActiveLimit
  /\ job' = [job EXCEPT ![j] = "active"]
  /\ UNCHANGED <<worker, st, clock, ahead, res, revoked, reqs, reply, device, faults>>

Cancel(j) ==
  /\ job[j] = "active"
  /\ job' = [job EXCEPT ![j] = "cancelling"]
  /\ UNCHANGED <<worker, st, clock, ahead, res, revoked, reqs, reply, device, faults>>

(* _run ends once no worker thread is left, whatever other devices said.   *)
Finish(j) ==
  /\ Active(j)
  /\ \A t \in Tasks : JobOf[t] = j => worker[t] \notin Working \ {"idle"}
  /\ job' = [job EXCEPT ![j] = "over"]
  /\ UNCHANGED <<worker, st, clock, ahead, res, revoked, reqs, reply, device, faults>>

(* prepare drops closed and expired tasks before it counts the rest.       *)
Kept == {t \in Tasks : st[t] \in Open /\ clock[t] # "late"}

Full == Cardinality(Kept) >= QueueLimit

(* Appends t unless the list already holds it.                             *)
Queue(t) ==
  /\ ~revoked
  /\ IF st[t] # "absent"
     THEN UNCHANGED <<st, ahead>>
     ELSE /\ ~Full
          /\ st' = [u \in Tasks |-> IF u = t THEN "pending"
                                    ELSE IF u \in Kept THEN st[u] ELSE "absent"]
          /\ ahead' = (ahead \cap (Kept \X Kept)) \cup (Kept \X {t})

(* prepare raises: device revoked, queue full, or no readable SERVER file. *)
Refused(t) ==
  /\ revoked \/ (st[t] = "absent" /\ (Full \/ t \in Downloads))
  /\ UNCHANGED <<st, ahead>>

(* _run queues the task of every target first, some to start later; a      *)
(* refusal is passed over.                                                 *)
PrepareAhead(t) ==
  /\ t \in Batched /\ worker[t] = "idle" /\ Active(JobOf[t])
  /\ worker' = [worker EXCEPT ![t] = "prepared"]
  /\ \E due \in {"early", "due"} : clock' = [clock EXCEPT ![t] = due]
  /\ Queue(t) \/ Refused(t)
  /\ UNCHANGED <<job, res, revoked, reqs, reply, device, faults>>

MutantSkipConnection(t) ==
  /\ worker[t] = "prepared" /\ job[JobOf[t]] = "cancelling"
  /\ worker' = [worker EXCEPT ![t] = "unconnected"]
  /\ UNCHANGED <<job, st, clock, ahead, res, revoked, reqs, reply, device, faults>>

(* _spread_target: a job cancelled before the target's turn.               *)
SkipConnection(t) ==
  /\ worker[t] = "prepared" /\ job[JobOf[t]] = "cancelling" /\ clock[t] = "early"
  /\ worker' = [worker EXCEPT ![t] = "unconnected"]
  /\ UNCHANGED <<job, st, clock, ahead, res, revoked, reqs, reply, device, faults>>

(* A worker thread reaches the target: execute prepares the task (again).  *)
(* Artifacts and queries run on a copy of the job, so they see only a      *)
(* cancellation that came before.                                          *)
Execute(t) ==
  /\ Active(JobOf[t])
  /\ worker[t] = IF t \in Batched THEN "prepared" ELSE "idle"
  /\ \A u \in Tasks : JobOf[u] = JobOf[t] => worker[u] \notin {"waiting", "withdrawing"}
  /\ \/ /\ Queue(t)
        /\ clock' = IF st[t] = "absent" THEN [clock EXCEPT ![t] = "due"] ELSE clock
        /\ worker' = [worker EXCEPT ![t] =
             IF t \notin Batched /\ job[JobOf[t]] = "cancelling"
             THEN "withdrawing" ELSE "waiting"]
     \/ /\ Refused(t)
        /\ worker' = [worker EXCEPT ![t] = "failed"]
        /\ UNCHANGED clock
  /\ UNCHANGED <<job, res, revoked, reqs, reply, device, faults>>

CancelSeen(t) ==
  \/ worker[t] = "withdrawing"
  \/ t \in Batched /\ job[JobOf[t]] = "cancelling"

Withdraws(t) == CancelSeen(t) /\ st[t] = "pending"

(* What one round of execute's polling loop finds out.                     *)
Verdict(t) ==
  IF revoked THEN "failed"
  ELSE IF res[t] # "none" THEN IF res[t] = "done" THEN "reported" ELSE "failed"
  ELSE IF Withdraws(t) THEN "unissued"
  ELSE IF st[t] = "cancelled" THEN "cancelled" ELSE "unknown"

MutantCollect(t) ==
  /\ worker[t] \in {"waiting", "withdrawing"}
  /\ revoked \/ res[t] # "none" \/ Withdraws(t) \/ st[t] \in {"absent", "cancelled"}
  /\ worker' = [worker EXCEPT ![t] = Verdict(t)]
  /\ st' = IF Verdict(t) = "unissued" THEN [st EXCEPT ![t] = "cancelled"] ELSE st
  /\ UNCHANGED <<job, clock, ahead, res, revoked, reqs, reply, device, faults>>

Collect(t) ==
  /\ worker[t] \in {"waiting", "withdrawing"}
  /\ \/ revoked \/ res[t] # "none" \/ Withdraws(t)
     \/ st[t] \in {"absent", "cancelled"} \/ clock[t] = "late"
  /\ worker' = [worker EXCEPT ![t] = Verdict(t)]
  /\ st' = IF Verdict(t) = "unissued" THEN [st EXCEPT ![t] = "cancelled"] ELSE st
  /\ UNCHANGED <<job, clock, ahead, res, revoked, reqs, reply, device, faults>>

Revoke ==
  /\ ~revoked
  /\ revoked' = TRUE
  /\ st' = [t \in Tasks |-> IF st[t] = "pending" THEN "cancelled" ELSE st[t]]
  /\ UNCHANGED <<job, worker, clock, ahead, res, reqs, reply, device, faults>>

(* not_before and expires pass.                                            *)
Tick(t) ==
  /\ st[t] \in Open \/ worker[t] \in {"prepared", "waiting", "withdrawing"}
  /\ clock[t] # "late"
  /\ clock' = [clock EXCEPT ![t] = IF @ = "early" THEN "due" ELSE "late"]
  /\ UNCHANGED <<job, worker, st, ahead, res, revoked, reqs, reply, device, faults>>

-------------------------------------------------------------------------------
(* SERVER: exchange *)

(* The answer reaches the device only if it still waits for this request.  *)
Respond(r, ack, t) ==
  /\ reqs' = reqs \ {r}
  /\ IF r.live
     THEN reply' = [ack |-> ack, task |-> t] /\ pc' = "answered"
     ELSE UNCHANGED <<reply, pc>>

(* ValueError: the device sees a failed call and tries again later.        *)
Reject(r) ==
  /\ reqs' = reqs \ {r}
  /\ IF r.live THEN pc' = "idle" ELSE UNCHANGED pc
  /\ UNCHANGED reply

(* The task list is scanned in order.  Tasks of a job that is cancelled or *)
(* finished, and tasks past their deadline, close on the way; the first    *)
(* one that is due is handed out, again if it was handed out before.       *)
Deliverable(s, t) == s[t] \in Open /\ job[JobOf[t]] = "active" /\ clock[t] = "due"

FirstDeliverable(s, t) ==
  /\ Deliverable(s, t)
  /\ \A u \in Tasks \ {t} : Deliverable(s, u) => <<t, u>> \in ahead

Passed(s, t, u) == s[u] \in Open /\ (t = None \/ <<u, t>> \in ahead)

Scanned(s, t) ==
  [u \in Tasks |->
     IF u = t THEN "issued"
     ELSE IF ~Passed(s, t, u) THEN s[u]
     ELSE IF job[JobOf[u]] # "active" THEN "cancelled"
     ELSE IF clock[u] = "late" THEN "expired" ELSE s[u]]

(* s is the task list after the request's result was taken in.             *)
Offer(r, s, ack) ==
  \/ \E t \in Tasks :
       /\ FirstDeliverable(s, t)
       /\ st' = Scanned(s, t)
       /\ Respond(r, ack, t) \/ (t \in Downloads /\ Reject(r))
  \/ /\ \A t \in Tasks : ~Deliverable(s, t)
     /\ st' = Scanned(s, None)
     /\ Respond(r, ack, None)

Wait(r, ack) ==
  /\ reqs' = (reqs \ {r}) \cup {[r EXCEPT !.phase = "waiting", !.ack = ack]}
  /\ UNCHANGED <<reply, pc>>

(* The device is refused, or reports a task that is only pending.          *)
Deny(r) ==
  /\ r.phase = "arrived"
  /\ revoked \/ (r.result # NoReport /\ st[r.result.task] = "pending")
  /\ Reject(r)
  /\ UNCHANGED <<job, worker, st, clock, ahead, res, revoked>>

(* No result: long poll until a task is there or 15 seconds have passed.   *)
LongPoll(r) ==
  /\ r.phase = "arrived" /\ ~revoked /\ r.result = NoReport
  /\ Wait(r, {})
  /\ UNCHANGED <<job, worker, st, clock, ahead, res, revoked>>

(* The result of an issued task is stored before the task is closed.  An   *)
(* artifact's request then waits for the next artifact.                    *)
Record(r) ==
  LET t == r.result.task
      closed == [st EXCEPT ![t] = "completed"]
  IN /\ r.phase = "arrived" /\ ~revoked /\ r.result # NoReport /\ st[t] = "issued"
     /\ res' = [res EXCEPT ![t] = r.result.kind]
     /\ IF t \in Artifacts
        THEN st' = closed /\ Wait(r, {t})
        ELSE Offer(r, closed, {t})
     /\ UNCHANGED <<job, worker, clock, ahead, revoked>>

(* A task already closed is acknowledged again; one no longer listed is    *)
(* passed over without acknowledgement.                                    *)
Repeat(r) ==
  LET t == r.result.task
  IN /\ r.phase = "arrived" /\ ~revoked /\ r.result # NoReport
     /\ st[t] \notin Open
     /\ Offer(r, st, IF st[t] = "absent" THEN {} ELSE {t})
     /\ UNCHANGED <<job, worker, clock, ahead, res, revoked>>

MutantWake(r) ==
  /\ r.phase = "waiting"
  /\ Offer(r, st, r.ack)
  /\ UNCHANGED <<job, worker, clock, ahead, res, revoked>>

(* wait_for returns, at the latest when its timeout passes; the device     *)
(* record and the task list are read again.                                *)
Wake(r) ==
  /\ r.phase = "waiting"
  /\ IF revoked THEN Reject(r) /\ UNCHANGED st ELSE Offer(r, st, r.ack)
  /\ UNCHANGED <<job, worker, clock, ahead, res, revoked>>

Exchange(r) ==
  /\ Deny(r) \/ LongPoll(r) \/ Record(r) \/ Repeat(r) \/ Wake(r)
  /\ UNCHANGED <<started, outbox, history, runs, forgotten, faults>>

(* A request nobody waits for never gets processed (broken connection,     *)
(* expired challenge).                                                     *)
DropRequest(r) ==
  /\ ~r.live
  /\ reqs' = reqs \ {r}
  /\ UNCHANGED <<server, reply, device, faults>>

(* SERVER stops and starts again: handlers and workers are gone, jobs that *)
(* were queued or running come back interrupted.  A result may have been   *)
(* written without its task being closed.                                  *)
ServerCrash ==
  /\ serverCrashes < MaxServerCrashes
  /\ serverCrashes' = serverCrashes + 1
  /\ job' = [j \in Jobs |-> IF Active(j) THEN "over" ELSE job[j]]
  /\ worker' = [t \in Tasks |->
       IF worker[t] \in Working \ {"idle"} THEN "lost" ELSE worker[t]]
  /\ \/ UNCHANGED res
     \/ \E r \in reqs :
          /\ r.phase = "arrived" /\ r.result # NoReport
          /\ ~revoked /\ st[r.result.task] = "issued"
          /\ res' = [res EXCEPT ![r.result.task] = r.result.kind]
  /\ reqs' = {}
  /\ pc' = IF pc = "waiting" THEN "idle" ELSE pc
  /\ UNCHANGED <<st, clock, ahead, revoked, reply, started, outbox, history,
                 runs, forgotten, agentCrashes>>

-------------------------------------------------------------------------------
(* DEVICE: Loop and Task *)

MutantPoll ==
  /\ pc = "idle" /\ Cardinality(reqs) < MaxRequests
  /\ reqs' = reqs \cup {[result |-> NoReport, ack |-> {}, phase |-> "arrived", live |-> TRUE]}
  /\ pc' = "waiting"
  /\ UNCHANGED <<server, reply, started, outbox, history, runs, forgotten, faults>>

Poll ==
  /\ pc = "idle" /\ Cardinality(reqs) < MaxRequests
  /\ reqs' = reqs \cup {[result |-> outbox, ack |-> {}, phase |-> "arrived", live |-> TRUE]}
  /\ pc' = "waiting"
  /\ UNCHANGED <<server, reply, started, outbox, history, runs, forgotten, faults>>

Abandoned == {[r EXCEPT !.live = FALSE] : r \in reqs}

(* Timeout or broken connection: the request may still be processed.       *)
GiveUp ==
  /\ pc \in {"waiting", "answered"}
  /\ pc' = "idle"
  /\ reqs' = Abandoned
  /\ reply' = NoReply
  /\ UNCHANGED <<server, started, outbox, history, runs, forgotten, faults>>

Remember(h, t) ==
  LET longer == Append(h, t)
  IN IF Len(longer) > HistoryLimit THEN Tail(longer) ELSE longer

(* Acknowledged results move from the outbox to the history.               *)
Acknowledge ==
  /\ pc = "answered"
  /\ IF outbox.task \in reply.ack
     THEN /\ history' = Remember(history, outbox.task)
          /\ forgotten' = forgotten \cup (Remembered \ Remembered')
          /\ outbox' = NoReport
     ELSE UNCHANGED <<history, forgotten, outbox>>
  /\ pc' = IF reply.task = None THEN "idle" ELSE "offered"
  /\ reply' = [ack |-> {}, task |-> reply.task]
  /\ UNCHANGED <<server, reqs, started, runs, faults>>

(* Putting a report into the outbox drops the one that was there.          *)
Post(report) ==
  /\ outbox' = report
  /\ forgotten' = forgotten \cup ({outbox.task} \ {None, report.task})

(* A task in the history is not run again.                                 *)
Refuse ==
  /\ pc = "offered" /\ reply.task \in Remembered
  /\ Post([task |-> reply.task, kind |-> "repeat"])
  /\ pc' = "idle" /\ reply' = NoReply
  /\ UNCHANGED <<server, reqs, started, history, runs, faults>>

MutantBegin ==
  /\ pc = "offered"
  /\ started' = reply.task
  /\ runs' = [runs EXCEPT ![reply.task] = @ + 1]
  /\ pc' = "executing" /\ reply' = NoReply
  /\ UNCHANGED <<server, reqs, outbox, history, forgotten, faults>>

(* The intent is saved, then the operation starts.                         *)
Begin ==
  /\ pc = "offered" /\ reply.task \notin Remembered
  /\ started' = reply.task
  /\ runs' = [runs EXCEPT ![reply.task] = @ + 1]
  /\ pc' = "executing" /\ reply' = NoReply
  /\ UNCHANGED <<server, reqs, outbox, history, forgotten, faults>>

(* The operation ends, well or not; its outcome is saved.                  *)
Complete ==
  /\ pc = "executing"
  /\ Post([task |-> started, kind |-> "done"])
  /\ started' = None
  /\ pc' = "idle"
  /\ UNCHANGED <<server, reqs, reply, history, runs, faults>>

AgentCrash ==
  /\ pc # "down" /\ agentCrashes < MaxAgentCrashes
  /\ agentCrashes' = agentCrashes + 1
  /\ pc' = "down"
  /\ reqs' = Abandoned
  /\ reply' = NoReply
  /\ UNCHANGED <<server, started, outbox, history, runs, forgotten, serverCrashes>>

MutantRestart ==
  /\ pc = "down"
  /\ pc' = "idle"
  /\ UNCHANGED <<server, reqs, reply, started, outbox, history, runs, forgotten, faults>>

(* A started task without a report is reported as failed, unless an older  *)
(* report still fills the outbox.                                          *)
AgentRestart ==
  /\ pc = "down"
  /\ pc' = "idle"
  /\ IF started # None /\ outbox = NoReport
     THEN /\ outbox' = [task |-> started, kind |-> "interrupted"]
          /\ started' = None
          /\ UNCHANGED forgotten
     ELSE /\ forgotten' = forgotten \cup ({started} \ {None})
          /\ UNCHANGED <<outbox, started>>
  /\ UNCHANGED <<server, reqs, reply, history, runs, faults>>

-------------------------------------------------------------------------------
Next ==
  \/ \E j \in Jobs : Submit(j) \/ Cancel(j) \/ Finish(j)
  \/ \E t \in Tasks :
       PrepareAhead(t) \/ SkipConnection(t) \/ Execute(t) \/ Collect(t) \/ Tick(t)
  \/ \E r \in reqs : Exchange(r) \/ DropRequest(r)
  \/ Revoke \/ ServerCrash
  \/ Poll \/ GiveUp \/ Acknowledge \/ Refuse \/ Begin \/ Complete
  \/ AgentCrash \/ AgentRestart

Spec == Init /\ [][Next]_vars

(* Threads of the job run and time passes, whatever the device does.       *)
JobProgress ==
  /\ \A j \in Jobs : WF_vars(Finish(j))
  /\ \A t \in Tasks : /\ WF_vars(PrepareAhead(t)) /\ WF_vars(Collect(t))
                      /\ WF_vars(t \in Batched /\ Execute(t)) /\ WF_vars(Tick(t))

(* The device keeps polling; a connection that is tried again and again    *)
(* works in the end (SF), and broken ones are closed.                      *)
PollProgress ==
  /\ WF_vars(Poll) /\ WF_vars(Refuse) /\ WF_vars(Begin) /\ WF_vars(Complete)
  /\ WF_vars(AgentRestart) /\ SF_vars(Acknowledge)
  /\ SF_vars(\E r \in reqs : r.live /\ Exchange(r))
  /\ WF_vars(\E r \in reqs : DropRequest(r))

-------------------------------------------------------------------------------
(* Properties *)

(* A device starts a task a second time only after it lost its own durable *)
(* record of it (Agent.cs: "never repeat a possibly mutating operation"):  *)
(* whatever is lost, repeated, pruned, queued again or restarted.          *)
RunsOnceUnlessForgotten == \A t \in Tasks \ forgotten : runs[t] <= 1

(* Why: every start is on record at the device, a live request carries the *)
(* device's present outbox, and a task offered to the device is never the  *)
(* one whose outcome it still has to deliver.                              *)
StartsRecorded ==
  \A t \in Tasks \ forgotten :
    runs[t] > 0 => \/ t \in Remembered
                   \/ outbox.task = t
                   \/ started = t /\ pc \in {"executing", "down"}
RequestsCurrent ==
  \A r \in reqs :
    /\ r.live => /\ pc = "waiting" /\ r.result = outbox
                 /\ \A q \in reqs : q.live => q = r
    /\ r.phase = "waiting" /\ r.result # NoReport => r.result.task \in r.ack
OffersFresh ==
  /\ pc = "answered" /\ reply.task # None /\ reply.task = outbox.task
       => outbox.task \in reply.ack
  /\ pc = "offered" => reply.task # outbox.task
RunsOnceInv ==
  TypeOK /\ RunsOnceUnlessForgotten /\ StartsRecorded /\ RequestsCurrent /\ OffersFresh

(* What the operator is told agrees with what the device did: see module   *)
(* RemoteCall.  "Agent task cancelled before issue" is trusted only for    *)
(* tasks that _run does not queue ahead.                                   *)
Told(t) ==
  IF worker[t] \in Working THEN "open"
  ELSE IF worker[t] = "unconnected" THEN "spared"
  ELSE IF worker[t] = "unissued" THEN IF t \in Batched THEN "cancelled" ELSE "spared"
  ELSE worker[t]
Call == INSTANCE RemoteCall WITH answer <- [t \in Tasks |-> Told(t)]
ImplementsRemoteCall == Call!Spec

(* After an administrator revokes the device, no request, not even one     *)
(* that was let in before and still waits, hands out a task or stores a    *)
(* result (exchange reads the record again after wait_for).                *)
NothingIssued ==
  /\ \A t \in Tasks : (st'[t] = "issued" => st[t] = "issued") /\ res'[t] = res[t]
  /\ reply'.task \in {None, reply.task}
RevokedDeviceIsCutOff == [][revoked => NothingIssued]_vars

(* A job comes to its end although the device never answers again: its     *)
(* worker gives up when the task's deadline has passed.                    *)
JobsEnd == \A j \in Jobs : Active(j) ~> job[j] = "over"

(* The outcome the device holds of a task handed out to it reaches SERVER, *)
(* over lost requests and lost answers, unless by then the task's deadline *)
(* has passed or the job was cancelled (exchange then closes the task).    *)
ReportsArrive ==
  \A t \in Tasks :
    (outbox.task = t /\ st[t] = "issued")
      ~> (res[t] # "none" \/ revoked \/ clock[t] = "late" \/ job[JobOf[t]] # "active")

(* docs/pc-handoff.md: durable task and result records prevent duplicate   *)
(* execution.                                                              *)
NeverRunsTwice == \A t \in Tasks : runs[t] <= 1
===============================================================================

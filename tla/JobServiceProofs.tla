--------------------------- MODULE JobServiceProofs ---------------------------
(***************************************************************************)
(* Theorems about JobService for every set of jobs and hosts, every limit  *)
(* and every number of faults and crashes.  JobInv of JobService is        *)
(* inductive; the properties of jobs are read off it, and it carries the   *)
(* refinement of JobLifecycle.                                             *)
(***************************************************************************)
EXTENDS JobService, TLAPS

-------------------------------------------------------------------------------
(* Types *)

(* What a step writes of a job is a record.                                *)
LEMMA ImageType ==
  ASSUME NEW j \in Jobs, status' \in [Jobs -> Status], results' \in [Jobs -> Results]
  PROVE  Image(j) \in Record
BY DEF Image, Record

LEMMA SaveType ==
  ASSUME TypeOK, NEW j \in Jobs, status' \in [Jobs -> Status], results' \in [Jobs -> Results],
         Saved(j) \/ SaveFails(j)
  PROVE  disk' \in [Jobs -> Record] /\ faults' \in Nat
<1>1. Image(j) \in Record
  BY ImageType
<1>2. disk \in [Jobs -> Record] /\ faults \in Nat
  BY DEF TypeOK
<1>. QED  BY <1>1, <1>2 DEF Saved, SaveFails, Fails

LEMMA FreshType ==
  ASSUME NEW s \in Status
  PROVE  Fresh(s) \in Record /\ NoResults \in Results
BY DEF Fresh, Record, Results, NoResults

LEMMA MendedType ==
  ASSUME TypeOK, NEW j \in Jobs
  PROVE  /\ disk[j] \in Record /\ Mended(j) \in Record
         /\ disk[j].status \in Status /\ disk[j].results \in Results
         /\ Recovered(disk[j].status) \in Status
<1>1. disk[j] \in Record
  BY DEF TypeOK
<1>2. disk[j].status \in Status /\ disk[j].results \in Results
  BY <1>1 DEF Record
<1>3. Recovered(disk[j].status) \in Status
  BY <1>2 DEF Recovered, Status
<1>. QED  BY <1>1, <1>2, <1>3 DEF Mended, Record

LEMMA TypeInit == Init => TypeOK
<1>1. NoResults \in Results /\ Fresh("none") \in Record
  BY FreshType DEF Status
<1>2. NoWorkers \in [Hosts -> Worker] /\ [h \in Hosts |-> 0] \in [Hosts -> Nat]
  BY DEF NoWorkers, Worker
<1>. SUFFICES ASSUME Init PROVE TypeOK
  OBVIOUS
<1>3. /\ results \in [Jobs -> Results] /\ disk \in [Jobs -> Record]
      /\ target \in [Jobs -> [Hosts -> Worker]] /\ runs \in [Jobs -> [Hosts -> Nat]]
  BY <1>1, <1>2 DEF Init
<1>4. status \in [Jobs -> Status]
  BY DEF Init, Status
<1>. QED  BY <1>3, <1>4 DEF Init, TypeOK

LEMMA TypeStep ==
  ASSUME TypeOK, [Next]_vars
  PROVE  TypeOK'
<1>. USE DEF TypeOK, memory
<1>1. ASSUME NEW j \in Jobs, Submit(j)
      PROVE  TypeOK'
  <2>1. status' \in [Jobs -> Status] /\ results' \in [Jobs -> Results]
    BY <1>1 DEF Submit, Status, Unfinished
  <2>2. disk' \in [Jobs -> Record] /\ faults' \in Nat
    BY <1>1, <2>1, SaveType DEF Submit
  <2>. QED  BY <1>1, <2>1, <2>2 DEF Submit, Deposit, Grow
<1>2. ASSUME NEW j \in Jobs, SubmitUnsaved(j)
      PROVE  TypeOK'
  <2>1. Fresh("queued") \in Record
    BY FreshType DEF Status, Unfinished
  <2>2. disk' \in [Jobs -> Record]
    BY <1>2, <2>1 DEF SubmitUnsaved
  <2>3. fate' \in [Jobs -> {"none", "accepted", "refused", "rejected"}] /\ faults' \in Nat
    BY <1>2 DEF SubmitUnsaved, Fails
  <2>4. UNCHANGED <<up, memory, runs, crashes>>
    BY <1>2 DEF SubmitUnsaved
  <2>. QED  BY <2>2, <2>3, <2>4
<1>3. ASSUME NEW j \in Jobs, SubmitRejected(j)
      PROVE  TypeOK'
  <2>1. Fresh("queued") \in Record /\ Fresh("failed") \in Record
    BY FreshType DEF Status, Unfinished, Outcome
  <2>2. disk' \in [Jobs -> Record]
    BY <1>3, <2>1 DEF SubmitRejected
  <2>. QED  BY <1>3, <2>2 DEF SubmitRejected, Fails, Status, Outcome
<1>4. ASSUME NEW j \in Jobs, Cancel(j)
      PROVE  TypeOK'
  <2>1. status' \in [Jobs -> Status] /\ results' \in [Jobs -> Results]
    BY <1>4 DEF Cancel
  <2>. QED  BY <1>4, <2>1, SaveType DEF Cancel
<1>5. ASSUME NEW j \in Jobs, Run(j)
      PROVE  TypeOK'
  <2>1. status' \in [Jobs -> Status] /\ results' \in [Jobs -> Results]
    BY <1>5 DEF Run, Status, Unfinished
  <2>2. disk' \in [Jobs -> Record] /\ faults' \in Nat
    <3>1. CASE Saved(j) \/ SaveFails(j)
      BY <2>1, <3>1, SaveType
    <3>2. CASE Fails /\ disk' = [disk EXCEPT ![j] = Image(j)]
      <4>1. Image(j) \in Record
        BY <2>1, ImageType
      <4>. QED  BY <3>2, <4>1 DEF Fails
    <3>. QED  BY <1>5, <3>1, <3>2 DEF Run
  <2>3. target' \in [Jobs -> [Hosts -> Worker]]
    <3>1. /\ [h \in Hosts |-> "todo"] \in [Hosts -> Worker]
          /\ \A begun \in SUBSET Hosts :
               [h \in Hosts |-> IF h \in begun THEN "todo" ELSE "none"] \in [Hosts -> Worker]
      BY DEF Worker
    <3>. QED  BY <1>5, <3>1 DEF Run
  <2>. QED  BY <1>5, <2>1, <2>2, <2>3 DEF Run
<1>6. ASSUME NEW j \in Jobs, NEW h \in Hosts, Begin(j, h)
      PROVE  TypeOK'
  <2>1. target' \in [Jobs -> [Hosts -> Worker]]
    <3>1. {"running", "cancelled"} \subseteq Worker
      BY DEF Worker, Outcome
    <3>2. ASSUME NEW w \in Worker, target' = [target EXCEPT ![j][h] = w]
          PROVE  target' \in [Jobs -> [Hosts -> Worker]]
      BY <3>2
    <3>. QED  BY <1>6, <3>1, <3>2 DEF Begin
  <2>2. runs' \in [Jobs -> [Hosts -> Nat]]
    <3>1. runs[j][h] + 1 \in Nat
      OBVIOUS
    <3>2. CASE UNCHANGED runs
      BY <3>2
    <3>3. CASE runs' = [runs EXCEPT ![j][h] = @ + 1]
      BY <3>1, <3>3
    <3>. QED  BY <1>6, <3>2, <3>3 DEF Begin
  <2>. QED  BY <1>6, <2>1, <2>2 DEF Begin
<1>7. ASSUME NEW j \in Jobs, NEW h \in Hosts, Return(j, h)
      PROVE  TypeOK'
  BY <1>7 DEF Return, Worker
<1>8. ASSUME NEW j \in Jobs, NEW h \in Hosts, Collect(j, h)
      PROVE  TypeOK'
  <2>1. results' \in [Jobs -> Results]
    <3>1. results' = [results EXCEPT ![j][h] = target[j][h]] \/ results' = results
      BY <1>8 DEF Collect
    <3>2. target[j][h] \in Outcome
      BY <1>8 DEF Collect
    <3>3. results[j] \in Results /\ [results[j] EXCEPT ![h] = target[j][h]] \in Results
      BY <3>2 DEF Results
    <3>4. results' = results \/ results' = [results EXCEPT ![j] = [results[j] EXCEPT ![h] = target[j][h]]]
      BY <3>1
    <3>. QED  BY <3>3, <3>4
  <2>2. target' \in [Jobs -> [Hosts -> Worker]]
    BY <1>8 DEF Collect, Worker
  <2>3. status' \in [Jobs -> Status]
    BY <1>8 DEF Collect
  <2>4. disk' \in [Jobs -> Record] /\ faults' \in Nat
    <3>1. CASE Saved(j) \/ SaveFails(j)
      BY <2>1, <2>3, <3>1, SaveType
    <3>2. CASE Fails /\ UNCHANGED disk
      BY <3>2 DEF Fails
    <3>. QED  BY <1>8, <3>1, <3>2 DEF Collect
  <2>. QED  BY <1>8, <2>1, <2>2, <2>3, <2>4 DEF Collect
<1>9. ASSUME NEW j \in Jobs, Conclude(j)
      PROVE  TypeOK'
  <2>1. status' \in [Jobs -> Status] /\ results' \in [Jobs -> Results]
    BY <1>9 DEF Conclude, Verdict, Status, Outcome
  <2>2. disk' \in [Jobs -> Record] /\ faults' \in Nat
    BY <1>9, <2>1, SaveType DEF Conclude
  <2>. QED  BY <1>9, <2>1, <2>2 DEF Conclude
<1>10. ASSUME NEW j \in Jobs, Stop(j)
      PROVE  TypeOK'
  <2>1. status' \in [Jobs -> Status] /\ results' \in [Jobs -> Results]
    BY <1>10 DEF Stop, Status, Outcome
  <2>2. disk' \in [Jobs -> Record] /\ faults' \in Nat
    BY <1>10, <2>1, SaveType DEF Stop
  <2>. QED  BY <1>10, <2>1, <2>2 DEF Stop
<1>11. ASSUME NEW j \in Jobs, Leave(j)
      PROVE  TypeOK'
  BY <1>11 DEF Leave, NoWorkers, Worker
<1>12. CASE Close
  BY <1>12 DEF Close
<1>13. CASE Exit \/ Crash
  <2>1. Down /\ crashes' \in Nat
    BY <1>13 DEF Exit, Crash
  <2>. QED  BY <2>1 DEF Down, NoWorkers, Worker
<1>14. CASE Restart
  <2>1. status' \in [Jobs -> Status]
    BY <1>14, MendedType DEF Restart, Status
  <2>2. disk' \in [Jobs -> Record] /\ results' \in [Jobs -> Results]
    BY <1>14, MendedType DEF Restart
  <2>. QED  BY <1>14, <2>1, <2>2 DEF Restart
<1>15. CASE RestartFails
  <2>1. disk' \in [Jobs -> Record]
    BY <1>15, MendedType DEF RestartFails
  <2>. QED  BY <1>15, <2>1 DEF RestartFails, Fails
<1>16. CASE UNCHANGED vars
  BY <1>16 DEF vars
<1>. QED
  BY <1>1, <1>2, <1>3, <1>4, <1>5, <1>6, <1>7, <1>8, <1>9, <1>10, <1>11, <1>12, <1>13,
     <1>14, <1>15, <1>16 DEF Next

(* Every variable keeps its type in every reachable state. *)
THEOREM TypeCorrect == Spec => []TypeOK
<1>1. TypeOK /\ [Next]_vars => TypeOK'
  BY TypeStep
<1>. QED  BY TypeInit, <1>1, PTL DEF Spec

-------------------------------------------------------------------------------
(* The invariant *)

(* What JobAgrees says of a job depends on the state of that job alone.    *)
LEMMA Frame ==
  ASSUME NEW k, JobAgrees(k), k \in secrets' => k \in secrets,
         UNCHANGED <<up, status[k], cancel[k], results[k], disk[k], fate[k], thread[k],
                     target[k], runs[k]>>
  PROVE  JobAgrees(k)'
BY DEF JobAgrees, SlotAccounted, SecretAccounted, JobHonest, Honest, ThreadAgrees,
       RecordAgrees, HostAgrees, Returned, Active

(* The record of a job on disk after a save that worked or did not.        *)
LEMMA SaveFacts ==
  ASSUME TypeOK, NEW j \in Jobs, Saved(j) \/ SaveFails(j)
  PROVE  /\ \A k \in Jobs \ {j} : disk'[k] = disk[k]
         /\ disk'[j] = disk[j] \/ disk'[j] = Image(j)
         /\ Image(j).status = status'[j] /\ Image(j).results = results'[j]
         /\ Saved(j) => disk'[j] = Image(j)
BY DEF TypeOK, Saved, SaveFails, Image

(* A record is no less honest after a save than the job in memory.         *)
LEMMA SaveHonest ==
  ASSUME TypeOK, NEW j \in Jobs, Saved(j) \/ SaveFails(j), JobAgrees(j),
         Honest(status[j], results[j], j)', UNCHANGED runs
  PROVE  JobHonest(j)'
<1>1. Honest(disk[j].status, disk[j].results, j)
  BY DEF JobAgrees, JobHonest
<1>. QED  BY <1>1, SaveFacts DEF JobHonest, Honest

(* Steps of the life of one job, each for that job.                        *)
LEMMA SubmitAgrees ==
  ASSUME JobInv, NEW j \in Jobs, Submit(j)
  PROVE  JobAgrees(j)'
<1>. USE DEF JobInv
<1>1. /\ fate[j] = "none" /\ up /\ UNCHANGED <<up, cancel, results, target, runs>>
      /\ status'[j] = "queued" /\ thread'[j] = "queued" /\ fate'[j] = "accepted"
      /\ disk'[j].status = "queued" /\ disk'[j].results = results[j]
  BY SaveFacts DEF Submit, Admits, TypeOK
<1>2. /\ status[j] = "none" /\ thread[j] = "none" /\ results[j] = NoResults
      /\ \A h \in Hosts : runs[j][h] = 0 /\ target[j][h] = "none" /\ results[j][h] = "none"
  BY <1>1 DEF JobAgrees, ThreadAgrees, RecordAgrees, HostAgrees, NoResults
<1>3. SlotAccounted(j)' /\ SecretAccounted(j)' /\ JobHonest(j)' /\ ThreadAgrees(j)' /\ RecordAgrees(j)'
  BY <1>1 DEF SlotAccounted, SecretAccounted, JobHonest, Honest, ThreadAgrees, RecordAgrees
<1>4. \A h \in Hosts : HostAgrees(j, h)'
  BY <1>1, <1>2 DEF HostAgrees
<1>. QED  BY <1>3, <1>4 DEF JobAgrees

LEMMA UnsavedAgrees ==
  ASSUME JobInv, NEW j \in Jobs, SubmitUnsaved(j)
  PROVE  JobAgrees(j)'
<1>. USE DEF JobInv
<1>1. /\ fate[j] = "none" /\ up /\ fate'[j] = "refused"
      /\ UNCHANGED <<up, status, cancel, results, target, runs, thread, secrets>>
      /\ UNCHANGED disk \/ disk'[j] = Fresh("queued")
  BY DEF SubmitUnsaved, Admits, TypeOK, memory
<1>2. /\ status[j] = "none" /\ thread[j] = "none" /\ disk[j] = Fresh("none")
      /\ \A h \in Hosts : runs[j][h] = 0 /\ target[j][h] = "none" /\ results[j][h] = "none"
  BY <1>1 DEF JobAgrees, ThreadAgrees, RecordAgrees, HostAgrees, NoResults
<1>3. disk'[j].status \in {"none", "queued"} /\ disk'[j].results = NoResults
  BY <1>1, <1>2 DEF Fresh
<1>4. SlotAccounted(j)' /\ SecretAccounted(j)' /\ JobHonest(j)' /\ ThreadAgrees(j)' /\ RecordAgrees(j)'
  BY <1>1, <1>2, <1>3 DEF JobAgrees, SlotAccounted, SecretAccounted, JobHonest, Honest,
     ThreadAgrees, RecordAgrees, Active, Unfinished
<1>5. \A h \in Hosts : HostAgrees(j, h)'
  BY <1>1, <1>2, <1>3 DEF HostAgrees, NoResults
<1>. QED  BY <1>4, <1>5 DEF JobAgrees

LEMMA RejectedAgrees ==
  ASSUME JobInv, NEW j \in Jobs, SubmitRejected(j)
  PROVE  JobAgrees(j)'
<1>. USE DEF JobInv
<1>1. /\ fate[j] = "none" /\ up /\ fate'[j] = "rejected" /\ status'[j] = "failed"
      /\ UNCHANGED <<up, cancel, results, target, runs, secrets>>
      /\ disk'[j] \in {Fresh("queued"), Fresh("failed")}
      /\ thread'[j] = thread[j] \/ thread'[j] = "queued"
  BY DEF SubmitRejected, Admits, TypeOK
<1>2. /\ status[j] = "none" /\ thread[j] = "none" /\ j \notin secrets
      /\ \A h \in Hosts : runs[j][h] = 0 /\ target[j][h] = "none" /\ results[j][h] = "none"
  BY <1>1 DEF JobAgrees, SecretAccounted, ThreadAgrees, RecordAgrees, HostAgrees, NoResults
<1>3. disk'[j].status \in {"queued", "failed"} /\ disk'[j].results = NoResults
  BY <1>1 DEF Fresh
<1>4. SlotAccounted(j)' /\ SecretAccounted(j)' /\ JobHonest(j)' /\ ThreadAgrees(j)' /\ RecordAgrees(j)'
  BY <1>1, <1>2, <1>3 DEF SlotAccounted, SecretAccounted, JobHonest, Honest,
     ThreadAgrees, RecordAgrees, Active, Unfinished
<1>5. \A h \in Hosts : HostAgrees(j, h)'
  BY <1>1, <1>2, <1>3 DEF HostAgrees, NoResults
<1>. QED  BY <1>4, <1>5 DEF JobAgrees

LEMMA CancelAgrees ==
  ASSUME JobInv, NEW j \in Jobs, Cancel(j)
  PROVE  JobAgrees(j)'
<1>. USE DEF JobInv
<1>1. /\ UNCHANGED <<up, status, results, fate, thread, target, secrets, runs>> /\ cancel'[j]
      /\ disk'[j] = disk[j] \/ (disk'[j].status = status[j] /\ disk'[j].results = results[j])
  BY SaveFacts DEF Cancel, TypeOK
<1>2. JobAgrees(j)
  OBVIOUS
<1>3. SlotAccounted(j)' /\ SecretAccounted(j)' /\ JobHonest(j)' /\ ThreadAgrees(j)'
  BY <1>1, <1>2 DEF JobAgrees, SlotAccounted, SecretAccounted, JobHonest, Honest,
     ThreadAgrees, Active, Returned
<1>4. RecordAgrees(j)'
  BY <1>1, <1>2 DEF JobAgrees, RecordAgrees, Cancel, Active, Unfinished
<1>5. \A h \in Hosts : HostAgrees(j, h)'
  BY <1>1, <1>2 DEF JobAgrees, HostAgrees
<1>. QED  BY <1>3, <1>4, <1>5 DEF JobAgrees

LEMMA RunAgrees ==
  ASSUME JobInv, NEW j \in Jobs, Run(j)
  PROVE  JobAgrees(j)'
<1>. USE DEF JobInv
<1>1. /\ thread[j] = "queued" /\ status'[j] = "running"
      /\ UNCHANGED <<up, cancel, results, fate, secrets, runs>>
      /\ disk'[j] = disk[j] \/ (disk'[j].status = status'[j] /\ disk'[j].results = results'[j])
      /\ \/ thread'[j] = "running" /\ \A h \in Hosts : target'[j][h] = "todo"
         \/ thread'[j] = "stopping" /\ \A h \in Hosts : target'[j][h] \in {target[j][h], "todo", "none"}
  <2>1. /\ thread[j] = "queued" /\ status'[j] = "running"
        /\ UNCHANGED <<up, cancel, results, fate, secrets, runs>>
    BY DEF Run, TypeOK
  <2>2. disk'[j] = disk[j] \/ disk'[j] = Image(j)
    BY SaveFacts DEF Run, TypeOK
  <2>3. \/ thread'[j] = "running" /\ \A h \in Hosts : target'[j][h] = "todo"
        \/ thread'[j] = "stopping" /\ \A h \in Hosts : target'[j][h] \in {target[j][h], "todo", "none"}
    BY DEF Run, TypeOK
  <2>. QED  BY <2>1, <2>2, <2>3 DEF Image
<1>2. /\ fate[j] \in {"accepted", "rejected"} /\ up /\ disk[j].status # "none" /\ JobAgrees(j)
      /\ \A h \in Hosts : runs[j][h] = 0 /\ results[j][h] = "none" /\ target[j][h] = "none"
  BY <1>1 DEF JobAgrees, ThreadAgrees, RecordAgrees, HostAgrees
<1>3. SlotAccounted(j)' /\ SecretAccounted(j)' /\ JobHonest(j)' /\ ThreadAgrees(j)' /\ RecordAgrees(j)'
  BY <1>1, <1>2 DEF JobAgrees, SlotAccounted, SecretAccounted, JobHonest, Honest,
     ThreadAgrees, RecordAgrees
<1>4. \A h \in Hosts : HostAgrees(j, h)'
  BY <1>1, <1>2 DEF JobAgrees, HostAgrees
<1>. QED  BY <1>3, <1>4 DEF JobAgrees

LEMMA WorkerAgrees ==
  ASSUME JobInv, NEW j \in Jobs, NEW h \in Hosts, Begin(j, h) \/ Return(j, h)
  PROVE  JobAgrees(j)'
<1>. USE DEF JobInv
<1>1. UNCHANGED <<up, status, cancel, results, disk, fate, thread, secrets>>
  BY DEF Begin, Return
<1>2. /\ JobAgrees(j) /\ thread[j] \notin {"none", "queued"} /\ ~Returned(j)
      /\ fate[j] \in {"accepted", "rejected"}
  BY DEF Begin, Return, JobAgrees, HostAgrees, ThreadAgrees, Returned
<1>3. /\ \A g \in Hosts \ {h} : target'[j][g] = target[j][g] /\ runs'[j][g] = runs[j][g]
      /\ \/ target'[j][h] = "cancelled" /\ cancel[j] /\ runs'[j][h] = runs[j][h]
         \/ target[j][h] = "todo" /\ target'[j][h] = "running" /\ runs'[j][h] = runs[j][h] + 1
         \/ /\ target[j][h] = "running" /\ target'[j][h] \in Outcome \ {"cancelled"}
            /\ runs'[j][h] = runs[j][h]
  BY DEF Begin, Return, TypeOK
<1>4. thread[j] # "ending" /\ (thread[j] = "stopping" => status[j] = "running")
  BY <1>2 DEF JobAgrees, ThreadAgrees
<1>5. SlotAccounted(j)' /\ SecretAccounted(j)' /\ ThreadAgrees(j)' /\ RecordAgrees(j)'
  BY <1>1, <1>2, <1>4 DEF JobAgrees, SlotAccounted, SecretAccounted, Active, ThreadAgrees, RecordAgrees
<1>6. JobHonest(j)'
  <2>1. \A g \in Hosts : runs[j][g] = 1 => runs'[j][g] = 1
    BY <1>2, <1>3 DEF JobAgrees, HostAgrees
  <2>. QED  BY <1>1, <1>2, <2>1 DEF JobAgrees, JobHonest, Honest
<1>7. \A g \in Hosts : HostAgrees(j, g)'
  BY <1>1, <1>2, <1>3 DEF JobAgrees, HostAgrees, Outcome
<1>. QED  BY <1>5, <1>6, <1>7 DEF JobAgrees

LEMMA CollectAgrees ==
  ASSUME JobInv, NEW j \in Jobs, NEW h \in Hosts, Collect(j, h)
  PROVE  JobAgrees(j)'
<1>. USE DEF JobInv
<1>1. /\ thread[j] = "running" /\ target[j][h] \in Outcome /\ thread'[j] \in {"running", "stopping"}
      /\ UNCHANGED <<up, status, cancel, fate, secrets, runs>>
      /\ \A g \in Hosts \ {h} : target'[j][g] = target[j][g] /\ results'[j][g] = results[j][g]
      /\ target'[j][h] = "taken"
      /\ \/ results'[j][h] = target[j][h]
         \/ results'[j][h] = results[j][h] /\ thread'[j] = "stopping"
      /\ disk'[j] = disk[j] \/ (disk'[j].status = status'[j] /\ disk'[j].results = results'[j])
  BY SaveFacts DEF Collect, TypeOK, Results
<1>2. JobAgrees(j) /\ status[j] = "running" /\ disk[j].status # "none" /\ up
  BY <1>1 DEF JobAgrees, ThreadAgrees, RecordAgrees
<1>3. SlotAccounted(j)' /\ SecretAccounted(j)' /\ ThreadAgrees(j)' /\ RecordAgrees(j)'
  BY <1>1, <1>2 DEF JobAgrees, SlotAccounted, SecretAccounted, ThreadAgrees, RecordAgrees
<1>4. JobHonest(j)'
  BY <1>1, <1>2 DEF JobAgrees, JobHonest, Honest
<1>5. \A g \in Hosts : HostAgrees(j, g)'
  <2>1. HostAgrees(j, h)'
    BY <1>1, <1>2 DEF JobAgrees, HostAgrees, Outcome
  <2>2. ASSUME NEW g \in Hosts \ {h}
        PROVE  HostAgrees(j, g)'
    BY <1>1, <1>2 DEF JobAgrees, HostAgrees
  <2>. QED  BY <2>1, <2>2
<1>. QED  BY <1>3, <1>4, <1>5 DEF JobAgrees

(* The verdict of a job all of whose outcomes were taken in is honest.     *)
LEMMA VerdictHonest ==
  ASSUME JobInv, NEW j \in Jobs, thread[j] = "running", \A h \in Hosts : target[j][h] = "taken"
  PROVE  Honest(Verdict(j), results[j], j) /\ Verdict(j) \in Outcome
<1>1. \A h \in Hosts : /\ results[j][h] \in Outcome
                       /\ results[j][h] = "cancelled" => cancel[j]
                       /\ results[j][h] = "completed" => runs[j][h] = 1
  BY DEF JobInv, JobAgrees, HostAgrees, TypeOK, Results
<1>2. Verdict(j) = "completed" =>
        ~cancel[j] /\ \A h \in Hosts : results[j][h] \notin {"failed", "partial"}
  BY DEF Verdict
<1>. QED  BY <1>1, <1>2 DEF Verdict, Honest, Outcome

LEMMA ConcludeAgrees ==
  ASSUME JobInv, NEW j \in Jobs, Conclude(j)
  PROVE  JobAgrees(j)'
<1>. USE DEF JobInv
<1>1. /\ thread[j] = "running" /\ (\A h \in Hosts : target[j][h] = "taken")
      /\ UNCHANGED <<up, cancel, results, fate, target, secrets, runs>>
      /\ status'[j] = Verdict(j) /\ thread'[j] \in {"stopping", "ending"}
      /\ disk'[j] = disk[j] \/ (disk'[j].status = status'[j] /\ disk'[j].results = results'[j])
  BY SaveFacts DEF Conclude, TypeOK
<1>2. JobAgrees(j) /\ disk[j].status # "none" /\ up /\ fate[j] \in {"accepted", "rejected"}
  BY <1>1 DEF JobAgrees, ThreadAgrees, RecordAgrees
<1>3. status'[j] \in Outcome /\ status'[j] \notin {"none", "queued", "running"}
  BY <1>1, VerdictHonest DEF Outcome
<1>4. Honest(status[j], results[j], j)'
  BY <1>1, VerdictHonest DEF Honest
<1>5. SlotAccounted(j)' /\ SecretAccounted(j)' /\ ThreadAgrees(j)' /\ RecordAgrees(j)'
  BY <1>1, <1>2, <1>3 DEF JobAgrees, SlotAccounted, SecretAccounted, ThreadAgrees, RecordAgrees,
     Returned, Active, Unfinished
<1>6. JobHonest(j)'
  BY <1>1, <1>2, <1>4 DEF JobAgrees, JobHonest, Honest
<1>7. \A h \in Hosts : HostAgrees(j, h)'
  BY <1>1, <1>2 DEF JobAgrees, HostAgrees
<1>. QED  BY <1>5, <1>6, <1>7 DEF JobAgrees

LEMMA StopAgrees ==
  ASSUME JobInv, NEW j \in Jobs, Stop(j)
  PROVE  JobAgrees(j)'
<1>. USE DEF JobInv
<1>1. /\ thread[j] = "stopping" /\ thread'[j] = "ending" /\ status'[j] = "failed" /\ Returned(j)
      /\ UNCHANGED <<up, cancel, results, fate, target, secrets, runs>>
      /\ disk'[j] = disk[j] \/ (disk'[j].status = status'[j] /\ disk'[j].results = results'[j])
  BY SaveFacts DEF Stop, TypeOK, Returned
<1>2. JobAgrees(j) /\ disk[j].status # "none" /\ up /\ fate[j] \in {"accepted", "rejected"}
  BY <1>1 DEF JobAgrees, ThreadAgrees, RecordAgrees
<1>3. SlotAccounted(j)' /\ SecretAccounted(j)' /\ ThreadAgrees(j)' /\ RecordAgrees(j)'
  BY <1>1, <1>2 DEF JobAgrees, SlotAccounted, SecretAccounted, ThreadAgrees, RecordAgrees,
     Returned, Active, Unfinished, Outcome
<1>4. JobHonest(j)'
  BY <1>1, <1>2 DEF JobAgrees, JobHonest, Honest
<1>5. \A h \in Hosts : HostAgrees(j, h)'
  BY <1>1, <1>2 DEF JobAgrees, HostAgrees
<1>. QED  BY <1>3, <1>4, <1>5 DEF JobAgrees

LEMMA LeaveAgrees ==
  ASSUME JobInv, NEW j \in Jobs, Leave(j)
  PROVE  JobAgrees(j)'
<1>. USE DEF JobInv
<1>1. /\ thread[j] = "ending" /\ thread'[j] = "none" /\ j \notin secrets'
      /\ UNCHANGED <<up, status, cancel, results, disk, fate, runs>>
      /\ \A h \in Hosts : target'[j][h] = "none"
  BY DEF Leave, TypeOK, NoWorkers
<1>2. JobAgrees(j) /\ status[j] \in Outcome
  BY <1>1 DEF JobAgrees, ThreadAgrees
<1>3. SlotAccounted(j)' /\ SecretAccounted(j)' /\ ThreadAgrees(j)' /\ RecordAgrees(j)' /\ JobHonest(j)'
  BY <1>1, <1>2 DEF JobAgrees, SlotAccounted, SecretAccounted, ThreadAgrees, RecordAgrees,
     JobHonest, Honest, Active, Unfinished, Outcome
<1>4. \A h \in Hosts : HostAgrees(j, h)'
  BY <1>1, <1>2 DEF JobAgrees, HostAgrees
<1>. QED  BY <1>3, <1>4 DEF JobAgrees

(* Steps of the process, which concern every job.                          *)
LEMMA DownAgrees ==
  ASSUME JobInv, Down, NEW k \in Jobs
  PROVE  JobAgrees(k)'
<1>1. /\ JobAgrees(k) /\ thread'[k] = "none" /\ up' = FALSE /\ secrets' = {}
      /\ UNCHANGED <<status, cancel, results, disk, fate, runs>>
      /\ \A h \in Hosts : target'[k][h] = "none"
  BY DEF Down, JobInv, NoWorkers
<1>2. SlotAccounted(k)' /\ SecretAccounted(k)' /\ ThreadAgrees(k)' /\ RecordAgrees(k)' /\ JobHonest(k)'
  BY <1>1 DEF JobAgrees, SlotAccounted, SecretAccounted, ThreadAgrees, RecordAgrees, JobHonest, Honest
<1>3. \A h \in Hosts : HostAgrees(k, h)'
  BY <1>1 DEF JobAgrees, HostAgrees
<1>. QED  BY <1>2, <1>3 DEF JobAgrees

LEMMA MendedFacts ==
  ASSUME NEW k, JobAgrees(k)
  PROVE  /\ Mended(k).status = Recovered(disk[k].status) /\ Mended(k).results = disk[k].results
         /\ Recovered(disk[k].status) = "none" <=> disk[k].status = "none"
         /\ Recovered(disk[k].status) \notin Unfinished
         /\ Honest(Recovered(disk[k].status), disk[k].results, k)
         /\ disk[k] = Fresh("none") => Mended(k) = disk[k]
BY DEF JobAgrees, JobHonest, Honest, Mended, Recovered, Unfinished, Fresh

LEMMA RestartAgrees ==
  ASSUME JobInv, Restart, NEW k \in Jobs
  PROVE  JobAgrees(k)'
<1>1. PICK bad \in SUBSET {j \in Jobs : disk[j].status # "none"} :
        /\ status' = [j \in Jobs |->
             IF j \in bad THEN "unreadable" ELSE Recovered(disk[j].status)]
        /\ disk' = [j \in Jobs |-> IF j \in bad THEN disk[j] ELSE Mended(j)]
  BY DEF Restart
<1>2. /\ JobAgrees(k) /\ ~up /\ up' = TRUE /\ UNCHANGED <<fate, thread, target, secrets, runs>>
      /\ results'[k] = disk[k].results /\ cancel'[k] = FALSE
      /\ disk'[k].results = disk[k].results /\ (disk'[k].status = "none" <=> disk[k].status = "none")
      /\ status'[k] \notin Unfinished /\ (status'[k] # "none" => disk[k].status # "none")
      /\ Honest(status'[k], results'[k], k) /\ Honest(disk'[k].status, disk'[k].results, k)
  BY <1>1, MendedFacts DEF Restart, JobInv, Unfinished, JobAgrees, JobHonest, Honest
<1>3. thread[k] = "none" /\ k \notin secrets
  BY <1>2 DEF JobAgrees, ThreadAgrees, SecretAccounted
<1>4. fate[k] = "none" => status'[k] = "none" /\ disk'[k] = Fresh("none") /\ results'[k] = NoResults
  BY <1>1, <1>2, MendedFacts DEF JobAgrees, RecordAgrees, Fresh
<1>5. SlotAccounted(k)' /\ SecretAccounted(k)' /\ ThreadAgrees(k)' /\ RecordAgrees(k)' /\ JobHonest(k)'
  BY <1>2, <1>3, <1>4 DEF JobAgrees, SlotAccounted, SecretAccounted, ThreadAgrees, RecordAgrees,
     JobHonest, Honest, Active
<1>6. \A h \in Hosts : HostAgrees(k, h)'
  BY <1>2, <1>3 DEF JobAgrees, HostAgrees
<1>. QED  BY <1>5, <1>6 DEF JobAgrees

LEMMA RestartFailsAgrees ==
  ASSUME JobInv, RestartFails, NEW k \in Jobs
  PROVE  JobAgrees(k)'
<1>1. /\ JobAgrees(k) /\ UNCHANGED <<up, memory, fate, runs>>
      /\ disk'[k] \in {disk[k], Mended(k)}
  BY DEF RestartFails, JobInv
<1>2. /\ disk'[k].results = disk[k].results /\ (disk'[k].status = "none" <=> disk[k].status = "none")
      /\ Honest(disk'[k].status, disk'[k].results, k)
      /\ disk[k] = Fresh("none") => disk'[k] = disk[k]
  BY <1>1, MendedFacts DEF JobAgrees, JobHonest
<1>3. SlotAccounted(k)' /\ SecretAccounted(k)' /\ ThreadAgrees(k)' /\ RecordAgrees(k)' /\ JobHonest(k)'
  BY <1>1, <1>2 DEF JobAgrees, SlotAccounted, SecretAccounted, ThreadAgrees, RecordAgrees,
     JobHonest, Honest, Active, Returned, memory
<1>4. \A h \in Hosts : HostAgrees(k, h)'
  BY <1>1, <1>2 DEF JobAgrees, HostAgrees, memory
<1>. QED  BY <1>3, <1>4 DEF JobAgrees

LEMMA InvStep ==
  ASSUME JobInv, [Next]_vars
  PROVE  JobInv'
<1>0. TypeOK /\ TypeOK' /\ \A k \in Jobs : JobAgrees(k)
  BY TypeStep DEF JobInv
<1>. SUFFICES ASSUME NEW k \in Jobs PROVE JobAgrees(k)'
  BY <1>0 DEF JobInv
<1>1. ASSUME NEW j \in Jobs,
             Submit(j) \/ SubmitUnsaved(j) \/ SubmitRejected(j) \/ Cancel(j) \/ Run(j)
      PROVE  JobAgrees(k)'
  <2>1. CASE k = j
    BY <1>1, <2>1, SubmitAgrees, UnsavedAgrees, RejectedAgrees, CancelAgrees, RunAgrees
  <2>2. CASE k # j
    <3>1. k \in secrets' => k \in secrets
      BY <1>1, <2>2 DEF Submit, Deposit, SubmitUnsaved, SubmitRejected, Cancel, Run, memory
    <3>2. UNCHANGED <<up, status[k], cancel[k], results[k], disk[k], fate[k], thread[k],
                      target[k], runs[k]>>
      BY <1>0, <1>1, <2>2, SaveFacts DEF Submit, SubmitUnsaved, SubmitRejected, Cancel, Run,
         TypeOK, memory
    <3>. QED  BY <1>0, <3>1, <3>2, Frame
  <2>. QED  BY <2>1, <2>2
<1>2. ASSUME NEW j \in Jobs, NEW h \in Hosts, Begin(j, h) \/ Return(j, h) \/ Collect(j, h)
      PROVE  JobAgrees(k)'
  <2>1. CASE k = j
    BY <1>2, <2>1, WorkerAgrees, CollectAgrees
  <2>2. CASE k # j
    <3>1. UNCHANGED <<up, status[k], cancel[k], results[k], disk[k], fate[k], thread[k],
                      target[k], runs[k], secrets>>
      BY <1>0, <1>2, <2>2, SaveFacts DEF Begin, Return, Collect, TypeOK
    <3>. QED  BY <1>0, <3>1, Frame
  <2>. QED  BY <2>1, <2>2
<1>3. ASSUME NEW j \in Jobs, Conclude(j) \/ Stop(j) \/ Leave(j)
      PROVE  JobAgrees(k)'
  <2>1. CASE k = j
    BY <1>3, <2>1, ConcludeAgrees, StopAgrees, LeaveAgrees
  <2>2. CASE k # j
    <3>1. k \in secrets' => k \in secrets
      BY <1>3 DEF Conclude, Stop, Leave
    <3>2. UNCHANGED <<up, status[k], cancel[k], results[k], disk[k], fate[k], thread[k],
                      target[k], runs[k]>>
      BY <1>0, <1>3, <2>2, SaveFacts DEF Conclude, Stop, Leave, TypeOK
    <3>. QED  BY <1>0, <3>1, <3>2, Frame
  <2>. QED  BY <2>1, <2>2
<1>4. CASE Exit \/ Crash
  BY <1>4, DownAgrees DEF Exit, Crash
<1>5. CASE Restart \/ RestartFails
  BY <1>5, RestartAgrees, RestartFailsAgrees
<1>6. CASE Close \/ UNCHANGED vars
  <2>1. UNCHANGED <<up, status[k], cancel[k], results[k], disk[k], fate[k], thread[k],
                    target[k], runs[k], secrets>>
    BY <1>6 DEF Close, vars, memory
  <2>. QED  BY <1>0, <2>1, Frame
<1>. QED  BY <1>1, <1>2, <1>3, <1>4, <1>5, <1>6 DEF Next

LEMMA InvInit == Init => JobInv
<1>. SUFFICES ASSUME Init PROVE JobInv
  OBVIOUS
<1>1. ASSUME NEW k \in Jobs
      PROVE  JobAgrees(k)
  <2>1. /\ up /\ status[k] = "none" /\ results[k] = NoResults /\ disk[k] = Fresh("none")
        /\ fate[k] = "none" /\ thread[k] = "none" /\ secrets = {} /\ cancel[k] = FALSE
        /\ disk[k].status = "none" /\ disk[k].results = NoResults
        /\ \A h \in Hosts : target[k][h] = "none" /\ runs[k][h] = 0 /\ NoResults[h] = "none"
    BY DEF Init, NoWorkers, NoResults, Fresh
  <2>2. \A h \in Hosts : HostAgrees(k, h)
    BY <2>1 DEF HostAgrees
  <2>. QED  BY <2>1, <2>2 DEF JobAgrees, SlotAccounted, SecretAccounted, JobHonest, Honest,
            ThreadAgrees, RecordAgrees, Active, Unfinished
<1>. QED  BY <1>1, TypeInit DEF JobInv

(* Thread, status, record and hosts of every job agree in every reachable  *)
(* state: the inductive invariant behind the theorems below.               *)
THEOREM InvCorrect == Spec => []JobInv
<1>1. JobInv /\ [Next]_vars => JobInv'
  BY InvStep
<1>. QED  BY InvInit, <1>1, PTL DEF Spec

(* An active job always has a thread that will end it, and a password is   *)
(* never kept for a job without one.                                       *)
THEOREM NothingLeaks == Spec => []NothingHeld
<1>1. JobInv => NothingHeld
  BY DEF JobInv, JobAgrees, NothingHeld, SlotsAccounted, SecretsAccounted
<1>. QED  BY <1>1, InvCorrect, PTL

(* No failure of a save makes a status claim more than happened.           *)
THEOREM StatusIsHonest == Spec => []StatusHonest
<1>1. JobInv => StatusHonest
  BY DEF JobInv, JobAgrees, StatusHonest
<1>. QED  BY <1>1, InvCorrect, PTL

(* A submission whose record could not be saved starts nothing; an         *)
(* accepted one is on record.                                              *)
THEOREM SubmitKeepsItsWord == Spec => []WordIsKept
<1>1. JobInv => WordIsKept
  <2>. SUFFICES ASSUME JobInv PROVE WordIsKept
    OBVIOUS
  <2>1. RefusedNeverRuns
    BY DEF JobInv, JobAgrees, HostAgrees, RefusedNeverRuns
  <2>2. AcceptedIsSaved
    BY DEF JobInv, JobAgrees, RecordAgrees, AcceptedIsSaved
  <2>. QED  BY <2>1, <2>2 DEF WordIsKept
<1>. QED  BY <1>1, InvCorrect, PTL

-------------------------------------------------------------------------------
(* JobService implements JobLifecycle *)

LEMMA PhaseStep ==
  ASSUME JobInv, [Next]_vars
  PROVE  [Lifecycle!Next]_(Lifecycle!vars)
<1>. DEFINE phase == [j \in Jobs |-> Phase(status[j], thread[j])]
            S == {j \in Jobs : phase'[j] # phase[j]}
<1>0. /\ TypeOK /\ \A k \in Jobs : JobAgrees(k)
      /\ phase' = [j \in Jobs |-> Phase(status'[j], thread'[j])]
  BY DEF JobInv
<1>1. ASSUME \A j \in Jobs : phase'[j] = phase[j] \/ phase'[j] = "over", UNCHANGED runs
      PROVE  Lifecycle!End(S)
  BY <1>0, <1>1 DEF Lifecycle!End
<1>2. ASSUME UNCHANGED <<status, thread, runs>>
      PROVE  UNCHANGED Lifecycle!vars
  BY <1>2 DEF Lifecycle!vars
<1>3. ASSUME NEW j \in Jobs, Submit(j)
      PROVE  Lifecycle!Accept(j)
  <2>1. status[j] = "none"
    BY <1>0, <1>3 DEF Submit, Admits, JobAgrees, RecordAgrees
  <2>. QED  BY <1>0, <1>3, <2>1 DEF Submit, TypeOK, Lifecycle!Accept, Phase, Unfinished
<1>4. ASSUME NEW j \in Jobs, SubmitRejected(j)
      PROVE  Lifecycle!Reject(j) \/ Lifecycle!End(S)
  <2>1. /\ status[j] = "none" /\ thread[j] = "none" /\ UNCHANGED runs
        /\ status' = [status EXCEPT ![j] = "failed"]
        /\ UNCHANGED thread \/ thread' = [thread EXCEPT ![j] = "queued"]
    BY <1>0, <1>4 DEF SubmitRejected, Admits, JobAgrees, RecordAgrees, ThreadAgrees
  <2>2. Phase("none", "none") = "none" /\ Phase("failed", "queued") = "rejected" /\ Phase("failed", "none") = "over"
    BY DEF Phase, Unfinished
  <2>3. CASE thread' = [thread EXCEPT ![j] = "queued"]
    BY <1>0, <2>1, <2>2, <2>3 DEF TypeOK, Lifecycle!Reject
  <2>4. CASE UNCHANGED thread
    <3>1. \A k \in Jobs : phase'[k] = phase[k] \/ phase'[k] = "over"
      BY <1>0, <2>1, <2>2, <2>4 DEF TypeOK
    <3>. QED  BY <1>1, <2>1, <3>1
  <2>. QED  BY <2>1, <2>3, <2>4
<1>5. ASSUME NEW j \in Jobs, NEW h \in Hosts, Begin(j, h), runs' # runs
      PROVE  Lifecycle!Start(j, h)
  <2>1. runs[j][h] = 0 /\ runs' = [runs EXCEPT ![j][h] = 1] /\ UNCHANGED <<status, thread>>
    BY <1>0, <1>5 DEF Begin, JobAgrees, HostAgrees, TypeOK
  <2>2. status[j] = "running"
    BY <1>0, <1>5 DEF Begin, JobAgrees, ThreadAgrees, Returned
  <2>. QED  BY <1>0, <2>1, <2>2 DEF Lifecycle!Start, Phase, Unfinished
<1>6. ASSUME NEW j \in Jobs, Run(j)
      PROVE  Lifecycle!TakeUp(j) \/ UNCHANGED Lifecycle!vars
  <2>1. /\ thread[j] = "queued" /\ status[j] \in {"queued", "failed"} /\ UNCHANGED runs
        /\ status' = [status EXCEPT ![j] = "running"]
        /\ \E t \in {"running", "stopping"} : thread' = [thread EXCEPT ![j] = t]
    BY <1>0, <1>6 DEF Run, JobAgrees, ThreadAgrees
  <2>2. /\ Phase("queued", "queued") = "active" /\ Phase("failed", "queued") = "rejected"
        /\ \A t \in {"running", "stopping"} : Phase("running", t) = "active"
    BY DEF Phase, Unfinished
  <2>3. phase' = [phase EXCEPT ![j] = "active"]
    BY <1>0, <2>1, <2>2 DEF TypeOK
  <2>4. phase[j] \in {"active", "rejected"} /\ phase \in [Jobs -> {phase[k] : k \in Jobs}]
    BY <2>1, <2>2
  <2>. QED  BY <2>1, <2>3, <2>4 DEF Lifecycle!TakeUp, Lifecycle!vars
<1>7. ASSUME NEW j \in Jobs, Conclude(j) \/ Stop(j)
      PROVE  Lifecycle!End(S)
  <2>1. /\ status' = [status EXCEPT ![j] = "failed"] \/ status' = [status EXCEPT ![j] = Verdict(j)]
        /\ UNCHANGED runs
        /\ \E t \in {"stopping", "ending"} : thread' = [thread EXCEPT ![j] = t]
    BY <1>7 DEF Conclude, Stop
  <2>2. \A t \in {"stopping", "ending"} : Phase("failed", t) = "over" /\ Phase(Verdict(j), t) = "over"
    BY DEF Phase, Verdict, Unfinished
  <2>3. \A k \in Jobs : phase'[k] = phase[k] \/ phase'[k] = "over"
    BY <1>0, <2>1, <2>2 DEF TypeOK
  <2>. QED  BY <1>1, <2>1, <2>3
<1>8. ASSUME Restart
      PROVE  Lifecycle!End(S)
  <2>1. ASSUME NEW k \in Jobs
        PROVE  phase'[k] = phase[k] \/ phase'[k] = "over"
    <3>1. status'[k] = "unreadable" \/ status'[k] = Recovered(disk[k].status)
      BY <1>8 DEF Restart
    <3>2. status'[k] \in Unfinished => FALSE
      BY <3>1 DEF Recovered, Unfinished
    <3>3. status'[k] = "none" => status[k] = "none"
      BY <1>0, <3>1 DEF Recovered, JobAgrees, RecordAgrees, Unfinished
    <3>4. thread'[k] # "queued"
      BY <1>0, <1>8 DEF Restart, JobAgrees, ThreadAgrees
    <3>. QED  BY <1>0, <3>2, <3>3, <3>4 DEF Phase
  <2>. QED  BY <1>1, <1>8, <2>1 DEF Restart
<1>9. ASSUME Exit \/ Crash
      PROVE  Lifecycle!End(S)
  <2>1. UNCHANGED <<status, runs>> /\ \A k \in Jobs : thread'[k] = "none"
    BY <1>9 DEF Exit, Crash, Down
  <2>2. \A k \in Jobs : phase'[k] = phase[k] \/ phase'[k] = "over"
    BY <1>0, <2>1 DEF Phase
  <2>. QED  BY <1>1, <2>1, <2>2
<1>10. ASSUME NEW j \in Jobs, Leave(j) \/ \E h \in Hosts : Collect(j, h)
       PROVE  UNCHANGED Lifecycle!vars
  <2>1. /\ UNCHANGED <<status, runs>> /\ thread[j] # "queued"
        /\ \E t \in {"none", "running", "stopping"} : thread' = [thread EXCEPT ![j] = t]
    <3>1. CASE Leave(j)
      BY <3>1 DEF Leave
    <3>2. ASSUME NEW h \in Hosts, Collect(j, h)
          PROVE  <2>1!1 /\ \E t \in {"running", "stopping"} : thread' = [thread EXCEPT ![j] = t]
      <4>1. thread[j] = "running" /\ UNCHANGED <<status, runs>>
        BY <3>2 DEF Collect
      <4>2. UNCHANGED thread => thread' = [thread EXCEPT ![j] = "running"]
        BY <1>0, <4>1 DEF TypeOK
      <4>. QED  BY <3>2, <4>1, <4>2 DEF Collect
    <3>. QED  BY <1>10, <3>1, <3>2
  <2>2. \A k \in Jobs : phase'[k] = phase[k]
    BY <1>0, <2>1 DEF TypeOK, Phase
  <2>3. phase' = phase
    BY <1>0, <2>2
  <2>. QED  BY <2>1, <2>3 DEF Lifecycle!vars
<1>11. ASSUME NEW j \in Jobs, SubmitUnsaved(j) \/ Cancel(j)
       PROVE  UNCHANGED <<status, thread, runs>>
  BY <1>11 DEF SubmitUnsaved, Cancel, memory
<1>12. ASSUME NEW j \in Jobs, NEW h \in Hosts, (Begin(j, h) /\ runs' = runs) \/ Return(j, h)
       PROVE  UNCHANGED <<status, thread, runs>>
  BY <1>12 DEF Begin, Return
<1>13. CASE Close \/ RestartFails \/ UNCHANGED vars
  BY <1>13, <1>2 DEF Close, RestartFails, vars, memory
<1>. HIDE DEF S, phase
<1>14. S \in SUBSET Jobs
  BY DEF S
<1>. QED
  BY <1>2, <1>3, <1>4, <1>5, <1>6, <1>7, <1>8, <1>9, <1>10, <1>11, <1>12, <1>13, <1>14
     DEF Next, Lifecycle!Next

(* Across failed saves, crashes and restarts, an operation starts at most  *)
(* once on a host, only while its job is shown as active, and a job that   *)
(* is over stays over, unless the pool rejected its submission and still   *)
(* has it in its queue.                                                    *)
THEOREM LifecycleCorrect == Spec => ImplementsLifecycle
<1>1. Init => Lifecycle!Init
  BY DEF Init, Lifecycle!Init, Phase
<1>2. JobInv /\ [Next]_vars => [Lifecycle!Next]_(Lifecycle!vars)
  BY PhaseStep
<1>. QED  BY <1>1, <1>2, InvCorrect, PTL DEF Spec, ImplementsLifecycle, Lifecycle!Spec
===============================================================================

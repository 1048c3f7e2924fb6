--------------------------- MODULE AgentTasksProofs ---------------------------
(***************************************************************************)
(* Theorems about AgentTasks for every number of tasks, jobs, requests and *)
(* crashes and every limit.  Type correctness comes first; RunsOnce follows*)
(* from the inductive invariant RunsOnceInv of AgentTasks, and with CallInv*)
(* it gives the refinement of RemoteCall.                                  *)
(***************************************************************************)
EXTENDS AgentTasks, TLAPS, FiniteSetTheorems, SequenceTheorems

(* What an exchange does to the device: nothing, or it ends its wait. *)
Talks == UNCHANGED <<pc, reply>> \/ pc' \in {"idle", "answered"}

-------------------------------------------------------------------------------
(* Types *)

(* The empty outbox is not a report, and names no task. *)
LEMMA NoReportFact == NoReport \notin Report /\ NoReport.task = None
BY KindsAssumption DEF NoReport, Report

(* What a request and the outbox are made of. *)
LEMMA ReportType ==
  ASSUME NEW x \in Report \cup {NoReport}
  PROVE  /\ x # NoReport => x \in Report /\ x.task \in Tasks /\ x.kind \in Kind
         /\ x.task \in Tasks \cup {None}
         /\ x = NoReport <=> x.task = None
BY KindsAssumption DEF NoReport, Report

LEMMA RequestType ==
  ASSUME TypeOK, NEW r \in reqs
  PROVE  /\ r \in Request
         /\ r.result \in Report \cup {NoReport} /\ r.ack \in SUBSET Tasks
         /\ r.result # NoReport => r.result.task \in Tasks /\ r.result.kind \in Kind
<1>1. r \in Request
  BY DEF TypeOK
<1>2. r.result \in Report \cup {NoReport} /\ r.ack \in SUBSET Tasks
  BY <1>1 DEF Request
<1>. QED  BY <1>1, <1>2, ReportType

(* Scanning the task list keeps every task in a known state. *)
LEMMA ScannedType ==
  ASSUME NEW s \in [Tasks -> TaskState], NEW t \in Tasks \cup {None}
  PROVE  Scanned(s, t) \in [Tasks -> TaskState]
BY DEF Scanned, TaskState

(* A request that is answered or rejected leaves well-formed messages. *)
LEMMA RespondType ==
  ASSUME TypeOK, NEW r \in reqs, NEW ack \in SUBSET Tasks, NEW t \in Tasks \cup {None},
         Respond(r, ack, t)
  PROVE  reqs' \subseteq Request /\ reply' \in Reply /\ Talks
BY DEF TypeOK, Respond, Reply, Talks

LEMMA RejectType ==
  ASSUME TypeOK, NEW r \in reqs, Reject(r)
  PROVE  reqs' \subseteq Request /\ reply' \in Reply /\ Talks
BY DEF TypeOK, Reject, Talks

LEMMA WaitType ==
  ASSUME TypeOK, NEW r \in reqs, NEW ack \in SUBSET Tasks, Wait(r, ack)
  PROVE  reqs' \subseteq Request /\ reply' \in Reply /\ Talks
<1>1. [r EXCEPT !.phase = "waiting", !.ack = ack] \in Request
  BY RequestType DEF Request
<1>. QED  BY <1>1 DEF TypeOK, Wait, Talks

LEMMA OfferType ==
  ASSUME TypeOK, NEW r \in reqs, NEW ack \in SUBSET Tasks, NEW s \in [Tasks -> TaskState],
         Offer(r, s, ack)
  PROVE  /\ st' \in [Tasks -> TaskState]
         /\ reqs' \subseteq Request /\ reply' \in Reply /\ Talks
<1>1. ASSUME NEW t \in Tasks, st' = Scanned(s, t), Respond(r, ack, t) \/ Reject(r)
      PROVE  /\ st' \in [Tasks -> TaskState]
             /\ reqs' \subseteq Request /\ reply' \in Reply /\ Talks
  <2>1. t \in Tasks \cup {None}
    OBVIOUS
  <2>. QED  BY <1>1, <2>1, ScannedType, RespondType, RejectType
<1>2. CASE st' = Scanned(s, None) /\ Respond(r, ack, None)
  BY <1>2, ScannedType, RespondType
<1>. QED  BY <1>1, <1>2 DEF Offer

(* Exchange: every outcome of a request keeps the types of what it touches. *)
LEMMA ExchangeType ==
  ASSUME TypeOK, NEW r \in reqs, Exchange(r)
  PROVE  /\ st' \in [Tasks -> TaskState] /\ res' \in [Tasks -> {"none"} \cup Kind]
         /\ reqs' \subseteq Request /\ reply' \in Reply /\ Talks
<1>. USE RequestType
<1>0. st \in [Tasks -> TaskState] /\ res \in [Tasks -> {"none"} \cup Kind]
  BY DEF TypeOK
<1>1. CASE Deny(r)
  BY <1>0, <1>1, RejectType DEF Deny
<1>2. CASE LongPoll(r)
  BY <1>0, <1>2, WaitType DEF LongPoll
<1>3. CASE Record(r)
  <2>. DEFINE t == r.result.task
              closed == [st EXCEPT ![t] = "completed"]
  <2>1. t \in Tasks /\ closed \in [Tasks -> TaskState] /\ {t} \in SUBSET Tasks
    BY <1>0, <1>3 DEF Record, TaskState
  <2>2. res' \in [Tasks -> {"none"} \cup Kind]
    BY <1>0, <1>3, <2>1 DEF Record
  <2>3. CASE st' = closed /\ Wait(r, {t})
    BY <2>1, <2>2, <2>3, WaitType
  <2>4. CASE Offer(r, closed, {t})
    <3>. HIDE DEF closed, t
    <3>. QED  BY <2>1, <2>2, <2>4, OfferType
  <2>. QED  BY <1>3, <2>3, <2>4 DEF Record
<1>4. CASE Repeat(r)
  <2>1. (IF st[r.result.task] = "absent" THEN {} ELSE {r.result.task}) \in SUBSET Tasks
    BY <1>4 DEF Repeat
  <2>. QED  BY <1>0, <1>4, <2>1, OfferType DEF Repeat
<1>5. CASE Wake(r)
  BY <1>0, <1>5, OfferType, RejectType DEF Wake
<1>. QED  BY <1>1, <1>2, <1>3, <1>4, <1>5 DEF Exchange

(* Giving up leaves requests that differ only in nobody waiting for them. *)
LEMMA AbandonedType ==
  ASSUME TypeOK
  PROVE  Abandoned \subseteq Request
<1>1. ASSUME NEW r \in reqs
      PROVE  [r EXCEPT !.live = FALSE] \in Request
  BY RequestType DEF Request
<1>. QED  BY <1>1 DEF Abandoned

(* Queueing a task, or being refused, keeps the task list well formed. *)
LEMMA QueueType ==
  ASSUME TypeOK, NEW t \in Tasks, Queue(t) \/ Refused(t)
  PROVE  st' \in [Tasks -> TaskState] /\ ahead' \subseteq Tasks \X Tasks
<1>1. st \in [Tasks -> TaskState] /\ ahead \subseteq Tasks \X Tasks /\ Kept \subseteq Tasks
  BY DEF TypeOK, Kept
<1>2. CASE UNCHANGED <<st, ahead>>
  BY <1>1, <1>2
<1>3. CASE /\ st' = [u \in Tasks |-> IF u = t THEN "pending"
                                     ELSE IF u \in Kept THEN st[u] ELSE "absent"]
           /\ ahead' = (ahead \cap (Kept \X Kept)) \cup (Kept \X {t})
  BY <1>1, <1>3 DEF TaskState
<1>. QED  BY <1>2, <1>3 DEF Queue, Refused

(* The history stays a bounded sequence; what it forgets it drops at the   *)
(* front, so the id appended last is in it.                                *)
LEMMA RememberFacts ==
  ASSUME NEW h \in Seq(Tasks), Len(h) <= HistoryLimit, NEW t \in Tasks
  PROVE  /\ Remember(h, t) \in Seq(Tasks) /\ Len(Remember(h, t)) <= HistoryLimit
         /\ \E i \in DOMAIN Remember(h, t) : Remember(h, t)[i] = t
<1>. DEFINE longer == Append(h, t)
<1>1. longer \in Seq(Tasks) /\ Len(longer) = Len(h) + 1 /\ longer[Len(longer)] = t
  OBVIOUS
<1>2. HistoryLimit \in Nat /\ HistoryLimit > 0 /\ Len(h) \in Nat
  BY LimitsAssumption
<1>3. CASE Len(longer) <= HistoryLimit
  <2>1. Remember(h, t) = longer
    BY <1>1, <1>2, <1>3 DEF Remember
  <2>. QED  BY <1>1, <1>2, <1>3, <2>1
<1>4. CASE Len(longer) > HistoryLimit
  <2>1. Remember(h, t) = Tail(longer)
    BY <1>4 DEF Remember
  <2>2. /\ Tail(longer) \in Seq(Tasks) /\ Len(Tail(longer)) = Len(h)
        /\ Tail(longer)[Len(h)] = longer[Len(h) + 1] /\ Len(h) \in DOMAIN Tail(longer)
    BY <1>1, <1>2, <1>4
  <2>. QED  BY <1>1, <1>2, <2>1, <2>2
<1>. QED  BY <1>1, <1>2, <1>3, <1>4

(* A device's report is well formed. *)
LEMMA PostType ==
  ASSUME TypeOK, NEW t \in Tasks, NEW k \in Kind, Post([task |-> t, kind |-> k])
  PROVE  outbox' \in Report \cup {NoReport} /\ forgotten' \subseteq Tasks
<1>1. [task |-> t, kind |-> k] \in Report
  BY DEF Report
<1>2. outbox.task \in Tasks \cup {None} /\ forgotten \subseteq Tasks
  BY ReportType DEF TypeOK
<1>. QED  BY <1>1, <1>2 DEF Post

(* The initial state and every step keep the types. *)
LEMMA TypeInit == Init => TypeOK
<1>. SUFFICES ASSUME Init PROVE TypeOK
  OBVIOUS
<1>1. /\ job \in [Jobs -> JobState] /\ worker \in [Tasks -> Working \cup Verdicts]
      /\ st \in [Tasks -> TaskState] /\ res \in [Tasks -> {"none"} \cup Kind]
      /\ clock \in [Tasks -> {"early", "due", "late"}] /\ runs \in [Tasks -> Nat]
  BY DEF Init, JobState, Working, TaskState
<1>2. reply \in Reply
  BY DEF Init, NoReply, Reply
<1>3. history \in Seq(Tasks) /\ Len(history) <= HistoryLimit
  BY LimitsAssumption DEF Init
<1>. QED  BY <1>1, <1>2, <1>3 DEF Init, TypeOK

LEMMA TypeStep ==
  ASSUME TypeOK, [Next]_vars
  PROVE  TypeOK'
<1>. USE DEF TypeOK, server, device, faults
<1>1. ASSUME NEW j \in Jobs, Submit(j) \/ Cancel(j) \/ Finish(j)
      PROVE  TypeOK'
  BY <1>1 DEF Submit, Cancel, Finish, JobState
<1>2. ASSUME NEW t \in Tasks, PrepareAhead(t)
      PROVE  TypeOK'
  BY <1>2, QueueType DEF PrepareAhead, Working
<1>3. ASSUME NEW t \in Tasks, SkipConnection(t)
      PROVE  TypeOK'
  BY <1>3 DEF SkipConnection, Verdicts
<1>4. ASSUME NEW t \in Tasks, Execute(t)
      PROVE  TypeOK'
  BY <1>4, QueueType DEF Execute, Working, Verdicts
<1>5. ASSUME NEW t \in Tasks, Collect(t)
      PROVE  TypeOK'
  <2>1. Verdict(t) \in Verdicts
    BY DEF Verdict, Verdicts
  <2>. QED  BY <1>5, <2>1 DEF Collect, TaskState
<1>6. ASSUME NEW t \in Tasks, Tick(t)
      PROVE  TypeOK'
  BY <1>6 DEF Tick
<1>7. ASSUME NEW r \in reqs, Exchange(r)
      PROVE  TypeOK'
  <2>1. UNCHANGED <<job, worker, clock, ahead, revoked, started, outbox, history, runs,
                    forgotten, faults>>
    BY <1>7 DEF Exchange, Deny, LongPoll, Record, Repeat, Wake
  <2>. QED  BY <1>7, <2>1, ExchangeType DEF Talks
<1>8. ASSUME NEW r \in reqs, DropRequest(r)
      PROVE  TypeOK'
  BY <1>8 DEF DropRequest
<1>9. CASE Revoke
  BY <1>9 DEF Revoke, TaskState
<1>10. CASE ServerCrash
  <2>1. res' \in [Tasks -> {"none"} \cup Kind]
    BY <1>10, RequestType DEF ServerCrash
  <2>. QED  BY <1>10, <2>1 DEF ServerCrash, JobState, Verdicts, Working
<1>11. CASE Poll
  <2>1. [result |-> outbox, ack |-> {}, phase |-> "arrived", live |-> TRUE] \in Request
    BY DEF Request
  <2>. QED  BY <1>11, <2>1 DEF Poll
<1>12. CASE GiveUp \/ AgentCrash
  <2>1. Abandoned \subseteq Request
    BY AbandonedType
  <2>2. NoReply \in Reply
    BY DEF NoReply, Reply
  <2>. QED  BY <1>12, <2>1, <2>2 DEF GiveUp, AgentCrash
<1>13. CASE Acknowledge
  <2>1. reply' \in Reply /\ pc' \in {"idle", "offered"} /\ (pc' = "offered" => reply'.task \in Tasks)
    BY <1>13 DEF Acknowledge, Reply
  <2>2. CASE outbox.task \in reply.ack
    <3>1. outbox.task \in Tasks
      BY <2>2 DEF Reply
    <3>2. history' \in Seq(Tasks) /\ Len(history') <= HistoryLimit
      BY <1>13, <2>2, <3>1, RememberFacts DEF Acknowledge
    <3>3. forgotten' \subseteq Tasks
      BY <1>13, <2>2 DEF Acknowledge, Remembered
    <3>. QED  BY <1>13, <2>1, <2>2, <3>2, <3>3 DEF Acknowledge
  <2>3. CASE outbox.task \notin reply.ack
    BY <1>13, <2>1, <2>3 DEF Acknowledge
  <2>. QED  BY <2>2, <2>3
<1>14. CASE Refuse
  <2>1. reply.task \in Tasks
    BY <1>14 DEF Refuse, Remembered
  <2>2. outbox' \in Report \cup {NoReport} /\ forgotten' \subseteq Tasks
    BY <1>14, <2>1, PostType DEF Refuse, Kind
  <2>. QED  BY <1>14, <2>2 DEF Refuse, NoReply, Reply
<1>15. CASE Begin
  BY <1>15 DEF Begin, NoReply, Reply
<1>16. CASE Complete
  <2>1. outbox' \in Report \cup {NoReport} /\ forgotten' \subseteq Tasks
    BY <1>16, PostType DEF Complete, Kind
  <2>. QED  BY <1>16, <2>1 DEF Complete
<1>17. CASE AgentRestart
  BY <1>17 DEF AgentRestart, Report, Kind
<1>18. CASE UNCHANGED vars
  BY <1>18 DEF vars
<1>. QED
  BY <1>1, <1>2, <1>3, <1>4, <1>5, <1>6, <1>7, <1>8, <1>9, <1>10, <1>11, <1>12, <1>13,
     <1>14, <1>15, <1>16, <1>17, <1>18 DEF Next

(* Every variable keeps its type in every reachable state. *)
THEOREM TypeCorrect == Spec => []TypeOK
<1>1. TypeOK /\ [Next]_vars => TypeOK'
  BY TypeStep
<1>. QED  BY TypeInit, <1>1, PTL DEF Spec

-------------------------------------------------------------------------------
(* RunsOnce *)

(* An answer to a live request offers a task whose outcome the device does *)
(* not hold, or acknowledges that outcome first.                           *)
LEMMA RespondFresh ==
  ASSUME TypeOK, RequestsCurrent, OffersFresh, UNCHANGED outbox,
         NEW r \in reqs, NEW ack \in SUBSET Tasks, NEW t \in Tasks \cup {None},
         Respond(r, ack, t), t # None /\ t = r.result.task => t \in ack
  PROVE  RequestsCurrent' /\ OffersFresh'
<1>1. CASE r.live
  <2>1. reply' = [ack |-> ack, task |-> t] /\ pc' = "answered" /\ r.result = outbox
    BY <1>1 DEF Respond, RequestsCurrent
  <2>2. \A q \in reqs' : ~q.live
    BY <1>1 DEF Respond, RequestsCurrent
  <2>3. RequestsCurrent'
    BY <2>2 DEF RequestsCurrent, Respond
  <2>. QED  BY <2>1, <2>3 DEF OffersFresh
<1>2. CASE ~r.live
  <2>1. UNCHANGED <<reply, pc>> /\ reqs' = reqs \ {r}
    BY <1>2 DEF Respond
  <2>. QED  BY <2>1 DEF RequestsCurrent, OffersFresh
<1>. QED  BY <1>1, <1>2 DEF TypeOK, Request

LEMMA RejectFresh ==
  ASSUME TypeOK, RequestsCurrent, OffersFresh, UNCHANGED outbox, NEW r \in reqs, Reject(r)
  PROVE  RequestsCurrent' /\ OffersFresh'
<1>1. CASE r.live
  <2>1. UNCHANGED reply /\ pc' = "idle"
    BY <1>1 DEF Reject
  <2>2. \A q \in reqs' : ~q.live
    BY <1>1 DEF Reject, RequestsCurrent
  <2>3. RequestsCurrent'
    BY <2>2 DEF RequestsCurrent, Reject
  <2>. QED  BY <2>1, <2>3 DEF OffersFresh
<1>2. CASE ~r.live
  <2>1. UNCHANGED <<reply, pc>> /\ reqs' = reqs \ {r}
    BY <1>2 DEF Reject
  <2>. QED  BY <2>1 DEF RequestsCurrent, OffersFresh
<1>. QED  BY <1>1, <1>2 DEF TypeOK, Request

LEMMA WaitFresh ==
  ASSUME TypeOK, RequestsCurrent, OffersFresh, UNCHANGED outbox,
         NEW r \in reqs, NEW ack \in SUBSET Tasks, Wait(r, ack),
         r.result # NoReport => r.result.task \in ack
  PROVE  RequestsCurrent' /\ OffersFresh'
<1>. DEFINE w == [r EXCEPT !.phase = "waiting", !.ack = ack]
<1>1. w.live = r.live /\ w.result = r.result /\ w.ack = ack /\ w.phase = "waiting"
  BY RequestType DEF Request
<1>2. reqs' = (reqs \ {r}) \cup {w} /\ UNCHANGED <<reply, pc>>
  BY DEF Wait
<1>. HIDE DEF w
<1>3. OffersFresh'
  BY <1>2 DEF OffersFresh
<1>4. \A q \in reqs' : q.live => q = w \/ q \in reqs
  BY <1>2
<1>5. RequestsCurrent'
  BY <1>1, <1>2 DEF RequestsCurrent
<1>. QED  BY <1>3, <1>5

LEMMA OfferFresh ==
  ASSUME TypeOK, RequestsCurrent, OffersFresh, UNCHANGED outbox,
         NEW r \in reqs, NEW ack \in SUBSET Tasks, NEW s, Offer(r, s, ack),
         \A t \in Tasks : s[t] \in Open /\ t = r.result.task => t \in ack
  PROVE  RequestsCurrent' /\ OffersFresh'
<1>1. ASSUME NEW t \in Tasks, FirstDeliverable(s, t), Respond(r, ack, t) \/ Reject(r)
      PROVE  RequestsCurrent' /\ OffersFresh'
  <2>1. s[t] \in Open /\ t \in Tasks \cup {None}
    BY <1>1 DEF FirstDeliverable, Deliverable
  <2>. QED  BY <1>1, <2>1, RespondFresh, RejectFresh
<1>2. CASE Respond(r, ack, None)
  BY <1>2, RespondFresh
<1>. QED  BY <1>1, <1>2 DEF Offer

LEMMA ExchangeFresh ==
  ASSUME TypeOK, RequestsCurrent, OffersFresh, NEW r \in reqs, Exchange(r)
  PROVE  RequestsCurrent' /\ OffersFresh'
<1>. USE RequestType
<1>0. UNCHANGED outbox
  BY DEF Exchange
<1>1. CASE Deny(r)
  BY <1>0, <1>1, RejectFresh DEF Deny
<1>2. CASE LongPoll(r)
  BY <1>0, <1>2, WaitFresh DEF LongPoll
<1>3. CASE Record(r)
  <2>. DEFINE t == r.result.task
              closed == [st EXCEPT ![t] = "completed"]
  <2>1. t \in Tasks /\ {t} \in SUBSET Tasks
    BY <1>3 DEF Record
  <2>2. CASE Wait(r, {t})
    BY <1>0, <2>1, <2>2, WaitFresh
  <2>3. CASE Offer(r, closed, {t})
    <3>. HIDE DEF closed
    <3>. QED  BY <1>0, <2>1, <2>3, OfferFresh
  <2>. QED  BY <1>3, <2>2, <2>3 DEF Record
<1>4. CASE Repeat(r)
  <2>. DEFINE ack == IF st[r.result.task] = "absent" THEN {} ELSE {r.result.task}
  <2>1. ack \in SUBSET Tasks /\ st[r.result.task] \notin Open /\ Offer(r, st, ack)
    BY <1>4 DEF Repeat
  <2>. HIDE DEF ack
  <2>. QED  BY <1>0, <2>1, OfferFresh
<1>5. CASE Wake(r)
  <2>1. CASE revoked
    BY <1>0, <1>5, <2>1, RejectFresh DEF Wake
  <2>2. CASE ~revoked
    <3>1. Offer(r, st, r.ack) /\ r.phase = "waiting"
      BY <1>5, <2>2 DEF Wake
    <3>2. \A t \in Tasks : t = r.result.task => t \in r.ack
      BY <3>1, NoReportFact, KindsAssumption DEF RequestsCurrent
    <3>. QED  BY <1>0, <3>1, <3>2, OfferFresh
  <2>. QED  BY <2>1, <2>2
<1>. QED  BY <1>1, <1>2, <1>3, <1>4, <1>5 DEF Exchange

(* Steps that touch neither the device's records nor the messages. *)
LEMMA QuietStep ==
  ASSUME RunsOnceInv, TypeOK', UNCHANGED <<reqs, reply, device>>
  PROVE  RunsOnceInv'
BY DEF RunsOnceInv, RunsOnceUnlessForgotten, StartsRecorded, RequestsCurrent, OffersFresh,
       Remembered, device

(* A device that gives up or goes down has no live request any more. *)
LEMMA AbandonedFresh ==
  ASSUME TypeOK, RequestsCurrent, reqs' = Abandoned
  PROVE  RequestsCurrent'
<1>1. ASSUME NEW r \in reqs
      PROVE  LET a == [r EXCEPT !.live = FALSE]
             IN  ~a.live /\ a.phase = r.phase /\ a.result = r.result /\ a.ack = r.ack
  BY RequestType DEF Request
<1>2. ASSUME NEW a \in reqs'
      PROVE  ~a.live /\ (a.phase = "waiting" /\ a.result # NoReport => a.result.task \in a.ack)
  <2>1. PICK r \in reqs : a = [r EXCEPT !.live = FALSE]
    BY DEF Abandoned
  <2>2. ~a.live /\ a.phase = r.phase /\ a.result = r.result /\ a.ack = r.ack
    BY <1>1, <2>1
  <2>. QED  BY <2>2 DEF RequestsCurrent
<1>. QED  BY <1>2 DEF RequestsCurrent

(* A new report replaces the old one, which is then forgotten. *)
LEMMA PostRecorded ==
  ASSUME TypeOK, NEW t \in Tasks, NEW k, Post([task |-> t, kind |-> k])
  PROVE  /\ outbox'.task = t /\ forgotten \subseteq forgotten'
         /\ \A u \in Tasks \ forgotten' : outbox.task = u => u = t
BY KindsAssumption DEF Post

LEMMA RunsOnceStep ==
  ASSUME RunsOnceInv, [Next]_vars
  PROVE  RunsOnceInv'
<1>. USE DEF device, faults, server
<1>0. TypeOK /\ TypeOK' /\ RunsOnceUnlessForgotten /\ StartsRecorded /\ RequestsCurrent /\ OffersFresh
  BY TypeStep DEF RunsOnceInv
<1>1. ASSUME NEW j \in Jobs, Submit(j) \/ Cancel(j) \/ Finish(j)
      PROVE  RunsOnceInv'
  BY <1>0, <1>1, QuietStep DEF Submit, Cancel, Finish
<1>2. ASSUME NEW t \in Tasks,
             PrepareAhead(t) \/ SkipConnection(t) \/ Execute(t) \/ Collect(t) \/ Tick(t)
      PROVE  RunsOnceInv'
  BY <1>0, <1>2, QuietStep DEF PrepareAhead, SkipConnection, Execute, Collect, Tick
<1>3. CASE Revoke
  BY <1>0, <1>3, QuietStep DEF Revoke
<1>4. ASSUME NEW r \in reqs, Exchange(r)
      PROVE  RunsOnceInv'
  <2>1. UNCHANGED <<started, outbox, history, runs, forgotten>>
    BY <1>4 DEF Exchange
  <2>2. UNCHANGED pc \/ pc = "waiting"
    BY <1>0, <1>4 DEF Exchange, Deny, LongPoll, Record, Repeat, Wake, Offer, Respond, Reject,
                      Wait, RequestsCurrent
  <2>3. RunsOnceUnlessForgotten' /\ StartsRecorded'
    BY <1>0, <2>1, <2>2 DEF RunsOnceUnlessForgotten, StartsRecorded, Remembered
  <2>. QED  BY <1>0, <1>4, <2>3, ExchangeFresh DEF RunsOnceInv
<1>5. ASSUME NEW r \in reqs, DropRequest(r)
      PROVE  RunsOnceInv'
  BY <1>0, <1>5 DEF DropRequest, RunsOnceInv, RunsOnceUnlessForgotten, StartsRecorded,
     RequestsCurrent, OffersFresh, Remembered
<1>6. CASE ServerCrash
  <2>1. /\ UNCHANGED <<reply, started, outbox, history, runs, forgotten>> /\ reqs' = {}
        /\ pc' = IF pc = "waiting" THEN "idle" ELSE pc
    BY <1>6 DEF ServerCrash
  <2>2. RunsOnceUnlessForgotten' /\ StartsRecorded' /\ RequestsCurrent' /\ OffersFresh'
    BY <1>0, <2>1 DEF RunsOnceUnlessForgotten, StartsRecorded, RequestsCurrent, OffersFresh,
                      Remembered
  <2>. QED  BY <1>0, <2>2 DEF RunsOnceInv
<1>7. CASE Poll
  <2>. DEFINE p == [result |-> outbox, ack |-> {}, phase |-> "arrived", live |-> TRUE]
  <2>1. reqs' = reqs \cup {p} /\ pc = "idle" /\ pc' = "waiting"
        /\ UNCHANGED <<reply, started, outbox, history, runs, forgotten>>
    BY <1>7 DEF Poll
  <2>2. \A r \in reqs : ~r.live
    BY <1>0, <2>1 DEF RequestsCurrent
  <2>3. p.live /\ p.result = outbox /\ p.phase # "waiting"
    OBVIOUS
  <2>. HIDE DEF p
  <2>4. RequestsCurrent'
    BY <1>0, <2>1, <2>2, <2>3 DEF RequestsCurrent
  <2>5. RunsOnceUnlessForgotten' /\ StartsRecorded' /\ OffersFresh'
    BY <1>0, <2>1 DEF RunsOnceUnlessForgotten, StartsRecorded, OffersFresh, Remembered
  <2>. QED  BY <1>0, <2>4, <2>5 DEF RunsOnceInv
<1>8. CASE GiveUp \/ AgentCrash
  <2>1. /\ UNCHANGED <<started, outbox, history, runs, forgotten>> /\ reqs' = Abandoned
        /\ pc' = "down" \/ (pc' = "idle" /\ pc \in {"waiting", "answered"})
    BY <1>8 DEF GiveUp, AgentCrash
  <2>2. RequestsCurrent'
    BY <1>0, <2>1, AbandonedFresh
  <2>3. RunsOnceUnlessForgotten' /\ StartsRecorded' /\ OffersFresh'
    BY <1>0, <2>1 DEF RunsOnceUnlessForgotten, StartsRecorded, OffersFresh, Remembered
  <2>. QED  BY <1>0, <2>2, <2>3 DEF RunsOnceInv
<1>9. CASE Acknowledge
  <2>1. /\ pc = "answered" /\ UNCHANGED <<reqs, started, runs>>
        /\ pc' = IF reply.task = None THEN "idle" ELSE "offered"
        /\ reply' = [ack |-> {}, task |-> reply.task]
    BY <1>9 DEF Acknowledge
  <2>2. \A r \in reqs : ~r.live
    BY <1>0, <2>1 DEF RequestsCurrent
  <2>3. RequestsCurrent'
    BY <1>0, <2>1, <2>2 DEF RequestsCurrent
  <2>4. CASE outbox.task \in reply.ack
    <3>1. outbox.task \in Tasks
      BY <1>0, <2>4 DEF TypeOK, Reply
    <3>2. /\ history' = Remember(history, outbox.task) /\ outbox' = NoReport
          /\ forgotten' = forgotten \cup (Remembered \ Remembered')
      BY <1>9, <2>4 DEF Acknowledge
    <3>3. outbox.task \in Remembered'
      BY <1>0, <3>1, <3>2, RememberFacts DEF TypeOK, Remembered
    <3>4. StartsRecorded' /\ RunsOnceUnlessForgotten'
      BY <1>0, <2>1, <3>2, <3>3 DEF StartsRecorded, RunsOnceUnlessForgotten
    <3>5. OffersFresh'
      BY <2>1, <3>2, NoReportFact DEF OffersFresh
    <3>. QED  BY <1>0, <2>3, <3>4, <3>5 DEF RunsOnceInv
  <2>5. CASE outbox.task \notin reply.ack
    <3>1. UNCHANGED <<history, forgotten, outbox>>
      BY <1>9, <2>5 DEF Acknowledge
    <3>2. OffersFresh'
      BY <1>0, <2>1, <2>5, <3>1 DEF OffersFresh
    <3>3. StartsRecorded' /\ RunsOnceUnlessForgotten'
      BY <1>0, <2>1, <3>1 DEF StartsRecorded, RunsOnceUnlessForgotten, Remembered
    <3>. QED  BY <1>0, <2>3, <3>2, <3>3 DEF RunsOnceInv
  <2>. QED  BY <2>4, <2>5
<1>10. CASE Refuse
  <2>1. /\ pc = "offered" /\ pc' = "idle" /\ reply.task \in Remembered /\ reply.task \in Tasks
        /\ UNCHANGED <<reqs, started, history, runs>>
        /\ Post([task |-> reply.task, kind |-> "repeat"])
    BY <1>0, <1>10 DEF Refuse, TypeOK
  <2>2. RequestsCurrent' /\ OffersFresh'
    BY <1>0, <2>1 DEF RequestsCurrent, OffersFresh
  <2>3. StartsRecorded' /\ RunsOnceUnlessForgotten'
    BY <1>0, <2>1, PostRecorded DEF StartsRecorded, RunsOnceUnlessForgotten, Remembered
  <2>. QED  BY <1>0, <2>2, <2>3 DEF RunsOnceInv
<1>11. CASE Begin
  <2>1. /\ pc = "offered" /\ pc' = "executing" /\ reply.task \notin Remembered
        /\ reply.task \in Tasks /\ started' = reply.task
        /\ runs' = [runs EXCEPT ![reply.task] = @ + 1]
        /\ UNCHANGED <<reqs, outbox, history, forgotten>>
    BY <1>0, <1>11 DEF Begin, TypeOK
  <2>2. RequestsCurrent' /\ OffersFresh'
    BY <1>0, <2>1 DEF RequestsCurrent, OffersFresh
  <2>3. reply.task \notin forgotten => runs[reply.task] = 0
    <3>1. reply.task # outbox.task
      BY <1>0, <2>1 DEF OffersFresh
    <3>. QED  BY <1>0, <2>1, <3>1 DEF StartsRecorded, TypeOK
  <2>4. RunsOnceUnlessForgotten'
    BY <1>0, <2>1, <2>3 DEF RunsOnceUnlessForgotten, TypeOK
  <2>5. StartsRecorded'
    BY <1>0, <2>1 DEF StartsRecorded, Remembered, TypeOK
  <2>. QED  BY <1>0, <2>2, <2>4, <2>5 DEF RunsOnceInv
<1>12. CASE Complete
  <2>1. /\ pc = "executing" /\ pc' = "idle" /\ started \in Tasks /\ started' = None
        /\ UNCHANGED <<reqs, history, runs>> /\ Post([task |-> started, kind |-> "done"])
    BY <1>0, <1>12 DEF Complete, TypeOK
  <2>2. RequestsCurrent' /\ OffersFresh'
    BY <1>0, <2>1 DEF RequestsCurrent, OffersFresh
  <2>3. StartsRecorded' /\ RunsOnceUnlessForgotten'
    BY <1>0, <2>1, PostRecorded DEF StartsRecorded, RunsOnceUnlessForgotten, Remembered
  <2>. QED  BY <1>0, <2>2, <2>3 DEF RunsOnceInv
<1>13. CASE AgentRestart
  <2>1. pc = "down" /\ pc' = "idle" /\ UNCHANGED <<reqs, reply, history, runs>>
    BY <1>13 DEF AgentRestart
  <2>2. RequestsCurrent' /\ OffersFresh'
    BY <1>0, <2>1 DEF RequestsCurrent, OffersFresh
  <2>3. /\ forgotten \subseteq forgotten'
        /\ \A t \in Tasks \ forgotten' : outbox.task = t \/ started = t => outbox'.task = t
    BY <1>13, NoReportFact, KindsAssumption DEF AgentRestart
  <2>4. StartsRecorded' /\ RunsOnceUnlessForgotten'
    BY <1>0, <2>1, <2>3 DEF StartsRecorded, RunsOnceUnlessForgotten, Remembered
  <2>. QED  BY <1>0, <2>2, <2>4 DEF RunsOnceInv
<1>14. CASE UNCHANGED vars
  BY <1>0, <1>14, QuietStep DEF vars
<1>. QED
  BY <1>1, <1>2, <1>3, <1>4, <1>5, <1>6, <1>7, <1>8, <1>9, <1>10, <1>11, <1>12, <1>13, <1>14
     DEF Next

LEMMA RunsOnceInit == Init => RunsOnceInv
<1>1. Init => RunsOnceUnlessForgotten /\ StartsRecorded /\ RequestsCurrent /\ OffersFresh
  BY DEF Init, RunsOnceUnlessForgotten, StartsRecorded, RequestsCurrent, OffersFresh
<1>. QED  BY <1>1, TypeInit DEF RunsOnceInv

(* Unless the device itself lost, ignored or aged out its record of a task *)
(* it never starts that task twice, whatever is lost, delayed, repeated,   *)
(* pruned, queued again, revoked or restarted in between.                  *)
THEOREM RunsOnce == Spec => []RunsOnceUnlessForgotten
<1>1. Init => RunsOnceInv
  BY RunsOnceInit
<1>2. RunsOnceInv /\ [Next]_vars => RunsOnceInv'
  BY RunsOnceStep
<1>3. RunsOnceInv => RunsOnceUnlessForgotten
  BY DEF RunsOnceInv
<1>. QED  BY <1>1, <1>2, <1>3, PTL DEF Spec

-------------------------------------------------------------------------------
(* Revocation *)

(* No step of a revoked device's queue hands out a task or stores a result. *)
LEMMA RevokedStep ==
  ASSUME TypeOK, revoked, [Next]_vars
  PROVE  NothingIssued
<1>. USE DEF NothingIssued, server, device, faults
<1>1. ASSUME NEW j \in Jobs, Submit(j) \/ Cancel(j) \/ Finish(j)
      PROVE  NothingIssued
  BY <1>1 DEF Submit, Cancel, Finish
<1>2. ASSUME NEW t \in Tasks, PrepareAhead(t) \/ SkipConnection(t) \/ Execute(t) \/ Tick(t)
      PROVE  NothingIssued
  BY <1>2 DEF PrepareAhead, SkipConnection, Execute, Tick, Queue, Refused
<1>3. ASSUME NEW t \in Tasks, Collect(t)
      PROVE  NothingIssued
  BY <1>3 DEF Collect, TypeOK
<1>4. ASSUME NEW r \in reqs, Exchange(r)
      PROVE  NothingIssued
  BY <1>4 DEF Exchange, Deny, LongPoll, Record, Repeat, Wake, Reject
<1>5. ASSUME NEW r \in reqs, DropRequest(r)
      PROVE  NothingIssued
  BY <1>5 DEF DropRequest
<1>6. CASE ServerCrash
  BY <1>6 DEF ServerCrash
<1>7. CASE Poll \/ GiveUp \/ Refuse \/ Begin \/ Complete \/ AgentCrash \/ AgentRestart
  <2>1. UNCHANGED server /\ reply' \in {reply, NoReply}
    BY <1>7 DEF Poll, GiveUp, Refuse, Begin, Complete, AgentCrash, AgentRestart
  <2>. QED  BY <2>1 DEF NoReply
<1>9. CASE Acknowledge
  BY <1>9 DEF Acknowledge
<1>8. CASE UNCHANGED vars
  BY <1>8 DEF vars
<1>. QED
  BY <1>1, <1>2, <1>3, <1>4, <1>5, <1>6, <1>7, <1>8, <1>9 DEF Next, Revoke

(* However many requests were let in before the revocation, none of them   *)
(* hands out a task or stores a result after it.                           *)
THEOREM RevokedIsCutOff == Spec => RevokedDeviceIsCutOff
<1>1. TypeOK /\ [Next]_vars => [revoked => NothingIssued]_vars
  BY RevokedStep
<1>. QED  BY <1>1, TypeCorrect, PTL DEF Spec, RevokedDeviceIsCutOff

-------------------------------------------------------------------------------
(* RemoteCall *)

(* The device has been given t, whether it started it yet or not. *)
Handed(t) == runs[t] > 0 \/ reply.task = t

(* A task whose worker has not begun is not in the list, and one that is   *)
(* not yet due, or was queued alone and never issued, has not been handed  *)
(* out.                                                                    *)
HeldBack(t) ==
  /\ worker[t] = "idle" => st[t] = "absent" /\ ~Handed(t)
  /\ clock[t] = "early" => ~Handed(t)
  /\ t \notin Batched /\ st[t] = "pending" => ~Handed(t)

(* Nothing brings a task back to the device that the operator was told is  *)
(* spared: its job is no longer active, or it was queued alone and closed. *)
SparedForGood(t) ==
  Told(t) = "spared" =>
    /\ ~Handed(t)
    /\ job[JobOf[t]] \in {"cancelling", "over"} \/ (t \notin Batched /\ st[t] \notin Open)

(* What is reported as done was started, at every station of the report.   *)
DoneStarted(x) == x.kind = "done" => runs[x.task] > 0
ReportsTrue ==
  /\ \A t \in Tasks : res[t] = "done" => runs[t] > 0
  /\ DoneStarted(outbox)
  /\ \A r \in reqs : DoneStarted(r.result)
  /\ pc = "executing" => runs[started] > 0

CallInv == (\A t \in Tasks : HeldBack(t) /\ SparedForGood(t)) /\ ReportsTrue

(* Offering a task leaves closed tasks closed and issues the one it hands  *)
(* out, which was open, due and of an active job.                          *)
LEMMA OfferHands ==
  ASSUME TypeOK, NEW r \in reqs, NEW ack, NEW s \in [Tasks -> TaskState], Offer(r, s, ack),
         NEW t \in Tasks
  PROVE  /\ s[t] = "absent" => st'[t] = "absent"
         /\ s[t] \notin Open => st'[t] \notin Open
         /\ st'[t] = "pending" => s[t] = "pending"
         /\ reply'.task = t => reply.task = t \/ (Deliverable(s, t) /\ st'[t] = "issued")
         /\ reqs' \subseteq reqs
<1>. USE DEF Scanned, Passed, Open
<1>1. ASSUME NEW u \in Tasks, FirstDeliverable(s, u), st' = Scanned(s, u),
             Respond(r, ack, u) \/ Reject(r)
      PROVE  /\ s[t] = "absent" => st'[t] = "absent"
             /\ s[t] \notin Open => st'[t] \notin Open
             /\ st'[t] = "pending" => s[t] = "pending"
             /\ reply'.task = t => reply.task = t \/ (Deliverable(s, t) /\ st'[t] = "issued")
             /\ reqs' \subseteq reqs
  <2>1. Deliverable(s, u) /\ s[u] \in Open /\ st'[u] = "issued" /\ u # None
    BY <1>1, KindsAssumption DEF FirstDeliverable, Deliverable
  <2>2. u # t => st'[t] \in {s[t], "cancelled", "expired"} /\ (s[t] \notin Open => st'[t] = s[t])
    BY <1>1
  <2>3. reply'.task = reply.task \/ reply'.task = u
    BY <1>1 DEF Respond, Reject
  <2>4. reqs' \subseteq reqs
    BY <1>1 DEF Respond, Reject
  <2>. QED  BY <2>1, <2>2, <2>3, <2>4
<1>2. CASE st' = Scanned(s, None) /\ Respond(r, ack, None)
  <2>1. t # None
    BY KindsAssumption
  <2>2. st'[t] \in {s[t], "cancelled", "expired"} /\ (s[t] \notin Open => st'[t] = s[t])
    BY <1>2, <2>1
  <2>3. (reply'.task = reply.task \/ reply'.task = None) /\ reqs' \subseteq reqs
    BY <1>2 DEF Respond
  <2>. QED  BY <2>1, <2>2, <2>3
<1>. QED  BY <1>1, <1>2 DEF Offer

(* An exchange reopens nothing, hands out only what is deliverable, and    *)
(* moves reports from the request to the results.                          *)
LEMMA ExchangeHands ==
  ASSUME TypeOK, NEW r \in reqs, Exchange(r), NEW t \in Tasks
  PROVE  /\ st[t] = "absent" => st'[t] = "absent"
         /\ st[t] \notin Open => st'[t] \notin Open
         /\ st'[t] = "pending" => st[t] = "pending"
         /\ reply'.task = t => reply.task = t \/ (Deliverable(st, t) /\ st'[t] = "issued")
<1>0. st \in [Tasks -> TaskState]
  BY DEF TypeOK
<1>1. CASE Deny(r) \/ LongPoll(r)
  BY <1>1 DEF Deny, LongPoll, Reject, Wait
<1>2. CASE Record(r)
  <2>. DEFINE u == r.result.task
              closed == [st EXCEPT ![u] = "completed"]
  <2>1. u \in Tasks /\ st[u] = "issued"
    BY <1>2, RequestType DEF Record
  <2>2. /\ closed \in [Tasks -> TaskState]
        /\ closed[t] = "completed" \/ closed[t] = st[t]
        /\ st[t] = "absent" => closed[t] = "absent"
        /\ st[t] \notin Open => closed[t] = st[t]
    BY <1>0, <2>1 DEF TaskState, Open
  <2>3. CASE st' = closed /\ Wait(r, {u})
    BY <2>2, <2>3 DEF Wait, Open
  <2>4. CASE Offer(r, closed, {u})
    <3>. HIDE DEF closed, u
    <3>1. /\ closed[t] = "absent" => st'[t] = "absent"
          /\ closed[t] \notin Open => st'[t] \notin Open
          /\ st'[t] = "pending" => closed[t] = "pending"
          /\ reply'.task = t => reply.task = t \/ (Deliverable(closed, t) /\ st'[t] = "issued")
      BY <2>2, <2>4, OfferHands
    <3>. QED  BY <2>2, <3>1 DEF Deliverable, Open
  <2>. QED  BY <1>2, <2>3, <2>4 DEF Record
<1>3. CASE Repeat(r)
  <2>1. PICK ack : Offer(r, st, ack)
    BY <1>3 DEF Repeat
  <2>. QED  BY <1>0, <2>1, OfferHands
<1>4. CASE Wake(r)
  <2>1. CASE revoked
    BY <1>4, <2>1 DEF Wake, Reject
  <2>2. CASE ~revoked
    BY <1>0, <1>4, <2>2, OfferHands DEF Wake
  <2>. QED  BY <2>1, <2>2
<1>. QED  BY <1>1, <1>2, <1>3, <1>4 DEF Exchange

(* No request gets a result on the way, and a stored result is the one of  *)
(* a request.                                                              *)
LEMMA ExchangeReports ==
  ASSUME TypeOK, NEW r \in reqs, Exchange(r)
  PROVE  /\ \A q \in reqs' : \E p \in reqs : q.result = p.result
         /\ \A t \in Tasks : res'[t] = "done" => \/ res[t] = "done"
                                                 \/ r.result.task = t /\ r.result.kind = "done"
<1>0. /\ st \in [Tasks -> TaskState] /\ res \in [Tasks -> {"none"} \cup Kind]
      /\ \A s, ack : Offer(r, s, ack) => reqs' \subseteq reqs
  BY DEF TypeOK, Offer, Respond, Reject
<1>1. ASSUME NEW ack, Wait(r, ack)
      PROVE  \A q \in reqs' : \E p \in reqs : q.result = p.result
  <2>1. [r EXCEPT !.phase = "waiting", !.ack = ack].result = r.result
    BY RequestType DEF Request
  <2>. QED  BY <1>1, <2>1 DEF Wait
<1>2. CASE Deny(r)
  BY <1>0, <1>2 DEF Deny, Reject
<1>3. CASE LongPoll(r)
  BY <1>0, <1>1, <1>3 DEF LongPoll
<1>4. CASE Record(r)
  <2>1. r.result.task \in Tasks /\ res' = [res EXCEPT ![r.result.task] = r.result.kind]
    BY <1>4, RequestType DEF Record
  <2>2. \A q \in reqs' : \E p \in reqs : q.result = p.result
    BY <1>0, <1>1, <1>4 DEF Record
  <2>. QED  BY <1>0, <2>1, <2>2
<1>5. CASE Repeat(r)
  BY <1>0, <1>5 DEF Repeat
<1>6. CASE Wake(r)
  BY <1>0, <1>6 DEF Wake, Reject
<1>. QED  BY <1>2, <1>3, <1>4, <1>5, <1>6 DEF Exchange

(* What holds a task back is left alone by a step that neither queues nor  *)
(* closes it, does not turn its clock back and gives it to no device.      *)
LEMMA HeldKept ==
  ASSUME TypeOK, NEW t \in Tasks, HeldBack(t), SparedForGood(t),
         Handed(t)' => Handed(t), worker'[t] = worker[t],
         clock'[t] = "early" => clock[t] = "early",
         st[t] = "absent" => st'[t] = "absent",
         st[t] \notin Open => st'[t] \notin Open,
         st'[t] = "pending" => st[t] = "pending",
         job[JobOf[t]] \in {"cancelling", "over"} => job'[JobOf[t]] \in {"cancelling", "over"}
  PROVE  (HeldBack(t) /\ SparedForGood(t))'
<1>1. HeldBack(t)'
  BY DEF HeldBack
<1>2. Told(t)' = Told(t)
  BY DEF Told
<1>3. SparedForGood(t)'
  BY <1>2 DEF SparedForGood
<1>. QED  BY <1>1, <1>3

(* Queueing a task, or being refused, gives no task to the device, and     *)
(* reopens only the task it is about.                                      *)
LEMMA QueueKeeps ==
  ASSUME TypeOK, NEW t \in Tasks, Queue(t) \/ Refused(t), NEW u \in Tasks
  PROVE  /\ u # t => /\ st[u] = "absent" => st'[u] = "absent"
                     /\ st[u] \notin Open => st'[u] \notin Open
                     /\ st'[u] = "pending" => st[u] = "pending"
         /\ st[t] # "absent" => st'[t] = st[t]
         /\ st[t] = "absent" => st'[t] \in {"absent", "pending"}
         /\ Refused(t) => st'[t] = st[t]
BY DEF Queue, Refused, Kept, Open, TypeOK

(* The steps of SERVER's workers and of the clock. *)
LEMMA WorkerHolds ==
  ASSUME TypeOK, CallInv, NEW t \in Tasks,
         PrepareAhead(t) \/ SkipConnection(t) \/ Execute(t) \/ Collect(t) \/ Tick(t),
         NEW u \in Tasks
  PROVE  (HeldBack(u) /\ SparedForGood(u))'
<1>. USE DEF device
<1>0. /\ HeldBack(u) /\ SparedForGood(u) /\ HeldBack(t) /\ ReportsTrue
      /\ worker \in [Tasks -> Working \cup Verdicts] /\ st \in [Tasks -> TaskState]
      /\ clock \in [Tasks -> {"early", "due", "late"}]
  BY DEF CallInv, TypeOK
<1>1. UNCHANGED <<job, reqs, reply, device, res>>
  BY DEF PrepareAhead, SkipConnection, Execute, Collect, Tick
<1>2. Handed(u)' <=> Handed(u)
  BY <1>1 DEF Handed
<1>3. CASE u # t
  <2>1. worker'[u] = worker[u]
    BY <1>0, <1>3 DEF PrepareAhead, SkipConnection, Execute, Collect, Tick
  <2>2. clock'[u] = clock[u]
    BY <1>0, <1>3 DEF PrepareAhead, SkipConnection, Execute, Collect, Tick
  <2>3. /\ st[u] = "absent" => st'[u] = "absent"
        /\ st[u] \notin Open => st'[u] \notin Open
        /\ st'[u] = "pending" => st[u] = "pending"
    <3>1. CASE PrepareAhead(t) \/ Execute(t)
      BY <1>3, <3>1, QueueKeeps DEF PrepareAhead, Execute
    <3>2. CASE SkipConnection(t) \/ Collect(t) \/ Tick(t)
      BY <1>0, <1>3, <3>2 DEF SkipConnection, Collect, Tick
    <3>. QED  BY <3>1, <3>2
  <2>. QED  BY <1>0, <1>1, <1>2, <2>1, <2>2, <2>3, HeldKept
<1>4. CASE u = t
  <2>1. CASE PrepareAhead(t)
    <3>1. /\ worker[t] = "idle" /\ worker'[t] = "prepared" /\ t \in Batched
          /\ ~Handed(t)
      BY <1>0, <2>1 DEF PrepareAhead, HeldBack
    <3>. QED  BY <1>2, <1>4, <3>1 DEF HeldBack, SparedForGood, Told, Working
  <2>2. CASE SkipConnection(t)
    <3>1. /\ worker'[t] = "unconnected" /\ job[JobOf[t]] = "cancelling" /\ UNCHANGED <<st, clock>>
          /\ ~Handed(t)
      BY <1>0, <2>2 DEF SkipConnection, HeldBack
    <3>. QED  BY <1>0, <1>1, <1>2, <1>4, <3>1 DEF HeldBack, SparedForGood
  <2>3. CASE Execute(t)
    <3>1. worker'[t] \in {"withdrawing", "waiting", "failed"}
      BY <1>0, <2>3 DEF Execute
    <3>2. clock'[t] = "early" => clock[t] = "early"
      BY <1>0, <2>3 DEF Execute
    <3>3. t \notin Batched => ~Handed(t)
      BY <1>0, <2>3 DEF Execute, HeldBack
    <3>4. HeldBack(t)'
      BY <1>0, <1>2, <1>4, <3>1, <3>2, <3>3 DEF HeldBack
    <3>5. SparedForGood(t)'
      BY <3>1 DEF SparedForGood, Told, Working
    <3>. QED  BY <1>4, <3>4, <3>5
  <2>4. CASE Collect(t)
    <3>1. /\ worker[t] \in {"waiting", "withdrawing"} /\ worker'[t] = Verdict(t) /\ UNCHANGED clock
          /\ st' = IF Verdict(t) = "unissued" THEN [st EXCEPT ![t] = "cancelled"] ELSE st
      BY <1>0, <2>4 DEF Collect
    <3>2. Verdict(t) \in {"failed", "reported", "unissued", "cancelled", "unknown"}
      BY DEF Verdict
    <3>3. HeldBack(t)'
      BY <1>0, <1>2, <1>4, <3>1, <3>2 DEF HeldBack
    <3>4. Verdict(t) = "unissued" => st[t] = "pending" /\ st'[t] = "cancelled"
      BY <1>0, <3>1 DEF Verdict, Withdraws
    <3>5. SparedForGood(t)'
      BY <1>0, <1>2, <1>4, <3>1, <3>2, <3>4 DEF SparedForGood, HeldBack, Told, Working, Open
    <3>. QED  BY <1>4, <3>3, <3>5
  <2>5. CASE Tick(t)
    <3>1. UNCHANGED <<worker, st>> /\ clock'[t] # "early"
      BY <1>0, <2>5 DEF Tick
    <3>. QED  BY <1>0, <1>1, <1>2, <1>4, <3>1, HeldKept
  <2>. QED  BY <2>1, <2>2, <2>3, <2>4, <2>5
<1>. QED  BY <1>3, <1>4

(* An exchange hands out only open tasks of active jobs that are due.      *)
LEMMA ExchangeHolds ==
  ASSUME TypeOK, CallInv, NEW r \in reqs, Exchange(r), NEW t \in Tasks
  PROVE  (HeldBack(t) /\ SparedForGood(t))'
<1>0. HeldBack(t) /\ SparedForGood(t)
  BY DEF CallInv
<1>1. UNCHANGED <<job, worker, clock, runs>>
  BY DEF Exchange, Deny, LongPoll, Record, Repeat, Wake
<1>2. /\ st[t] = "absent" => st'[t] = "absent"
      /\ st[t] \notin Open => st'[t] \notin Open
      /\ st'[t] = "pending" => st[t] = "pending"
      /\ reply'.task = t => reply.task = t \/ (Deliverable(st, t) /\ st'[t] = "issued")
  BY ExchangeHands
<1>3. CASE Handed(t)' => Handed(t)
  BY <1>0, <1>1, <1>2, <1>3, HeldKept
<1>4. CASE Handed(t)' /\ ~Handed(t)
  <2>1. /\ st[t] \in Open /\ job[JobOf[t]] = "active" /\ clock[t] = "due" /\ st'[t] = "issued"
    BY <1>1, <1>2, <1>4 DEF Handed, Deliverable
  <2>2. worker[t] # "idle" /\ Told(t) # "spared"
    BY <1>0, <2>1 DEF HeldBack, SparedForGood, Open
  <2>3. HeldBack(t)'
    BY <1>1, <2>1, <2>2 DEF HeldBack
  <2>4. Told(t)' = Told(t)
    BY <1>1 DEF Told
  <2>. QED  BY <2>2, <2>3, <2>4 DEF SparedForGood
<1>. QED  BY <1>3, <1>4

(* Every other step leaves the operator's side of a task alone, or ends it. *)
LEMMA OthersHold ==
  ASSUME TypeOK, CallInv, NEW t \in Tasks,
         \/ \E j \in Jobs : Submit(j) \/ Cancel(j) \/ Finish(j)
         \/ \E r \in reqs : DropRequest(r)
         \/ Revoke \/ ServerCrash \/ Poll \/ GiveUp \/ Acknowledge \/ Refuse \/ Begin
         \/ Complete \/ AgentCrash \/ AgentRestart
  PROVE  (HeldBack(t) /\ SparedForGood(t))'
<1>. USE DEF server, device
<1>0. /\ HeldBack(t) /\ SparedForGood(t) /\ JobOf[t] \in Jobs /\ t # None
      /\ job \in [Jobs -> JobState] /\ runs \in [Tasks -> Nat] /\ st \in [Tasks -> TaskState]
      /\ worker \in [Tasks -> Working \cup Verdicts]
      /\ reply \in Reply
  BY KindsAssumption DEF CallInv, TypeOK
<1>1. ASSUME NEW j \in Jobs, Submit(j) \/ Cancel(j) \/ Finish(j)
      PROVE  (HeldBack(t) /\ SparedForGood(t))'
  <2>1. UNCHANGED <<worker, st, clock, reply, runs>>
    BY <1>1 DEF Submit, Cancel, Finish
  <2>2. job[JobOf[t]] \in {"cancelling", "over"} => job'[JobOf[t]] \in {"cancelling", "over"}
    BY <1>0, <1>1 DEF Submit, Cancel, Finish
  <2>. QED  BY <1>0, <2>1, <2>2, HeldKept DEF Handed
<1>2. CASE Revoke
  BY <1>0, <1>2, HeldKept DEF Revoke, Handed, Open
<1>3. CASE ServerCrash
  <2>1. /\ UNCHANGED <<st, clock, reply, runs>>
        /\ job'[JobOf[t]] = IF Active(JobOf[t]) THEN "over" ELSE job[JobOf[t]]
        /\ worker'[t] = IF worker[t] \in Working \ {"idle"} THEN "lost" ELSE worker[t]
    BY <1>0, <1>3 DEF ServerCrash
  <2>2. job[JobOf[t]] \in {"cancelling", "over"} => job'[JobOf[t]] \in {"cancelling", "over"}
    BY <2>1
  <2>3. CASE worker'[t] = worker[t]
    BY <1>0, <2>1, <2>2, <2>3, HeldKept DEF Handed
  <2>4. CASE worker'[t] = "lost"
    BY <1>0, <2>1, <2>4 DEF HeldBack, SparedForGood, Handed, Told, Working
  <2>. QED  BY <2>1, <2>3, <2>4
<1>4. CASE Begin
  <2>1. /\ reply.task \in Tasks /\ runs' = [runs EXCEPT ![reply.task] = @ + 1] /\ reply'.task = None
        /\ UNCHANGED <<job, worker, st, clock>>
    BY <1>4 DEF Begin, NoReply, TypeOK
  <2>2. Handed(t)' => Handed(t)
    BY <1>0, <2>1 DEF Handed
  <2>. QED  BY <1>0, <2>1, <2>2, HeldKept
<1>5. CASE \/ \E r \in reqs : DropRequest(r)
           \/ Poll \/ GiveUp \/ Acknowledge \/ Refuse \/ Complete \/ AgentCrash \/ AgentRestart
  <2>1. UNCHANGED <<server, runs>> /\ reply'.task \in {reply.task, None}
    BY <1>5 DEF DropRequest, Poll, GiveUp, Acknowledge, Refuse, Complete, AgentCrash, AgentRestart,
                NoReply
  <2>. QED  BY <1>0, <2>1, HeldKept DEF Handed
<1>. QED  BY <1>1, <1>2, <1>3, <1>4, <1>5

(* Reports stay true: only the end of an operation makes one that says     *)
(* done, and starts are never undone.                                      *)
LEMMA ReportsStep ==
  ASSUME TypeOK, CallInv, [Next]_vars
  PROVE  ReportsTrue'
<1>. USE DEF server, device, faults
<1>0. /\ \A t \in Tasks : res[t] = "done" => runs[t] > 0
      /\ DoneStarted(outbox)
      /\ \A r \in reqs : DoneStarted(r.result)
      /\ pc = "executing" => runs[started] > 0
      /\ runs \in [Tasks -> Nat]
  BY DEF CallInv, ReportsTrue, TypeOK
<1>. DEFINE Quiet == /\ UNCHANGED <<runs, outbox, started, res>>
                     /\ \A q \in reqs' : \E p \in reqs : q.result = p.result
                     /\ pc' = "executing" => pc = "executing"
<1>1. ASSUME Quiet
      PROVE  ReportsTrue'
  BY <1>0, <1>1 DEF ReportsTrue, DoneStarted
<1>2. ASSUME NEW j \in Jobs, Submit(j) \/ Cancel(j) \/ Finish(j)
      PROVE  Quiet
  BY <1>2 DEF Submit, Cancel, Finish
<1>3. ASSUME NEW t \in Tasks,
             PrepareAhead(t) \/ SkipConnection(t) \/ Execute(t) \/ Collect(t) \/ Tick(t)
      PROVE  Quiet
  BY <1>3 DEF PrepareAhead, SkipConnection, Execute, Collect, Tick
<1>4. ASSUME NEW r \in reqs, Exchange(r)
      PROVE  ReportsTrue'
  <2>1. UNCHANGED <<started, outbox, runs>>
    BY <1>4 DEF Exchange
  <2>2. pc' = "executing" => pc = "executing"
    <3>1. Talks
      BY <1>4, ExchangeType
    <3>. QED  BY <3>1 DEF Talks
  <2>3. /\ \A q \in reqs' : \E p \in reqs : q.result = p.result
        /\ \A t \in Tasks : res'[t] = "done" => \/ res[t] = "done"
                                                \/ r.result.task = t /\ r.result.kind = "done"
    BY <1>4, ExchangeReports
  <2>. QED  BY <1>0, <2>1, <2>2, <2>3 DEF ReportsTrue, DoneStarted
<1>5. ASSUME NEW r \in reqs, DropRequest(r)
      PROVE  Quiet
  BY <1>5 DEF DropRequest
<1>6. CASE Revoke
  BY <1>1, <1>6 DEF Revoke
<1>7. CASE ServerCrash
  <2>1. /\ UNCHANGED <<runs, outbox, started>> /\ reqs' = {}
        /\ pc' = "executing" => pc = "executing"
    BY <1>7 DEF ServerCrash
  <2>2. \A t \in Tasks : res'[t] = "done" => runs[t] > 0
    <3>1. CASE UNCHANGED res
      BY <1>0, <3>1
    <3>2. ASSUME NEW r \in reqs, r.result # NoReport,
                 res' = [res EXCEPT ![r.result.task] = r.result.kind]
          PROVE  \A t \in Tasks : res'[t] = "done" => runs[t] > 0
      <4>1. r.result.task \in Tasks /\ res \in [Tasks -> {"none"} \cup Kind]
        BY <3>2, RequestType DEF TypeOK
      <4>. QED  BY <1>0, <3>2, <4>1 DEF DoneStarted
    <3>. QED  BY <1>7, <3>1, <3>2 DEF ServerCrash
  <2>. QED  BY <1>0, <2>1, <2>2 DEF ReportsTrue, DoneStarted
<1>8. CASE Poll
  <2>1. /\ UNCHANGED <<runs, outbox, started, res>> /\ pc' = "waiting"
        /\ \A q \in reqs' : q \in reqs \/ q.result = outbox
    BY <1>8 DEF Poll
  <2>. QED  BY <1>0, <2>1 DEF ReportsTrue, DoneStarted
<1>9. CASE GiveUp \/ AgentCrash
  <2>1. ASSUME NEW p \in reqs
        PROVE  [p EXCEPT !.live = FALSE].result = p.result
    BY RequestType DEF Request
  <2>2. ASSUME NEW q \in reqs'
        PROVE  \E p \in reqs : q.result = p.result
    <3>1. PICK p \in reqs : q = [p EXCEPT !.live = FALSE]
      BY <1>9 DEF GiveUp, AgentCrash, Abandoned
    <3>. QED  BY <2>1, <3>1
  <2>. QED  BY <1>1, <1>9, <2>2 DEF GiveUp, AgentCrash
<1>10. CASE Acknowledge
  <2>1. /\ UNCHANGED <<runs, started, res, reqs>> /\ pc' \in {"idle", "offered"}
        /\ outbox' \in {outbox, NoReport}
    BY <1>10 DEF Acknowledge
  <2>. QED  BY <1>0, <2>1 DEF ReportsTrue, DoneStarted, NoReport
<1>11. CASE Refuse
  <2>1. /\ UNCHANGED <<runs, started, res, reqs>> /\ pc' = "idle" /\ outbox'.kind = "repeat"
    BY <1>11 DEF Refuse, Post
  <2>. QED  BY <1>0, <2>1 DEF ReportsTrue, DoneStarted
<1>12. CASE Begin
  <2>1. /\ reply.task \in Tasks /\ started' = reply.task /\ UNCHANGED <<outbox, res, reqs>>
        /\ runs' = [runs EXCEPT ![reply.task] = @ + 1]
    BY <1>12 DEF Begin, TypeOK
  <2>2. runs'[started'] > 0 /\ \A t : runs[t] > 0 => runs'[t] > 0
    BY <1>0, <2>1
  <2>. QED  BY <1>0, <2>1, <2>2 DEF ReportsTrue, DoneStarted
<1>13. CASE Complete
  <2>1. /\ UNCHANGED <<runs, res, reqs>> /\ pc' = "idle"
        /\ outbox'.task = started /\ pc = "executing"
    BY <1>13 DEF Complete, Post
  <2>. QED  BY <1>0, <2>1 DEF ReportsTrue, DoneStarted
<1>14. CASE AgentRestart
  <2>1. /\ UNCHANGED <<runs, res, reqs>> /\ pc' = "idle"
        /\ outbox' = outbox \/ outbox'.kind = "interrupted"
    BY <1>14 DEF AgentRestart
  <2>. QED  BY <1>0, <2>1 DEF ReportsTrue, DoneStarted
<1>15. CASE UNCHANGED vars
  BY <1>1, <1>15 DEF vars
<1>. QED
  BY <1>1, <1>2, <1>3, <1>4, <1>5, <1>6, <1>7, <1>8, <1>9, <1>10, <1>11, <1>12, <1>13, <1>14,
     <1>15 DEF Next

(* The invariant holds at first and is kept by every step. *)
LEMMA CallStep ==
  ASSUME TypeOK, CallInv, [Next]_vars
  PROVE  CallInv'
<1>1. ASSUME NEW t \in Tasks
      PROVE  (HeldBack(t) /\ SparedForGood(t))'
  <2>1. ASSUME NEW u \in Tasks,
               PrepareAhead(u) \/ SkipConnection(u) \/ Execute(u) \/ Collect(u) \/ Tick(u)
        PROVE  (HeldBack(t) /\ SparedForGood(t))'
    BY <2>1, WorkerHolds
  <2>2. ASSUME NEW r \in reqs, Exchange(r)
        PROVE  (HeldBack(t) /\ SparedForGood(t))'
    BY <2>2, ExchangeHolds
  <2>3. CASE \/ \E j \in Jobs : Submit(j) \/ Cancel(j) \/ Finish(j)
             \/ \E r \in reqs : DropRequest(r)
             \/ Revoke \/ ServerCrash \/ Poll \/ GiveUp \/ Acknowledge \/ Refuse \/ Begin
             \/ Complete \/ AgentCrash \/ AgentRestart
    BY <2>3, OthersHold
  <2>4. CASE UNCHANGED vars
    <3>1. UNCHANGED <<job, worker, st, clock, reply, runs>>
      BY <2>4 DEF vars, server, device
    <3>. QED  BY <3>1, HeldKept DEF CallInv, Handed
  <2>. QED  BY <2>1, <2>2, <2>3, <2>4 DEF Next
<1>2. ReportsTrue'
  BY ReportsStep
<1>. QED  BY <1>1, <1>2 DEF CallInv

LEMMA CallInit == Init => CallInv
<1>. SUFFICES ASSUME Init PROVE CallInv
  OBVIOUS
<1>1. ASSUME NEW t \in Tasks
      PROVE  HeldBack(t) /\ SparedForGood(t)
  BY KindsAssumption DEF Init, HeldBack, SparedForGood, Handed, Told, Working, NoReply
<1>2. ReportsTrue
  BY DEF Init, ReportsTrue, DoneStarted, NoReport
<1>. QED  BY <1>1, <1>2 DEF CallInv

-------------------------------------------------------------------------------
(* A worker that ends gives an answer that agrees with what the device did. *)
LEMMA AnswerStep ==
  ASSUME TypeOK, CallInv, NEW t \in Tasks, SkipConnection(t) \/ Execute(t) \/ Collect(t)
  PROVE  /\ Call!Answer(t, Told(t)')
         /\ Told(t)' = "open" => UNCHANGED Call!vars
<1>. USE DEF device
<1>0. /\ worker \in [Tasks -> Working \cup Verdicts] /\ HeldBack(t) /\ ReportsTrue
      /\ runs \in [Tasks -> Nat]
  BY DEF TypeOK, CallInv
<1>1. UNCHANGED <<runs, forgotten>>
  BY DEF SkipConnection, Execute, Collect
<1>2. worker[t] \in Working /\ Told(t) = "open"
  <2>1. worker[t] \in Working
    BY DEF SkipConnection, Execute, Collect, Working
  <2>. QED  BY <2>1 DEF Told
<1>3. \A u \in Tasks : u # t => Told(u)' = Told(u)
  <2>1. \A u \in Tasks : u # t => worker'[u] = worker[u]
    BY <1>0 DEF SkipConnection, Execute, Collect
  <2>. QED  BY <2>1 DEF Told
<1>4. [u \in Tasks |-> Told(u)'] = [[u \in Tasks |-> Told(u)] EXCEPT ![t] = Told(t)']
  BY <1>2, <1>3
<1>5. Told(t)' = "reported" => runs[t] > 0
  <2>1. Told(t)' = "reported" => worker'[t] = "reported"
    BY DEF Told
  <2>2. worker'[t] = "reported" => Collect(t) /\ Verdict(t) = "reported"
    BY <1>0 DEF SkipConnection, Execute, Collect
  <2>3. Verdict(t) = "reported" => res[t] = "done"
    BY DEF Verdict
  <2>. QED  BY <1>0, <2>1, <2>2, <2>3 DEF ReportsTrue
<1>6. Told(t)' = "spared" => runs[t] = 0
  <2>1. Told(t)' = "spared" => \/ worker'[t] = "unconnected"
                               \/ worker'[t] = "unissued" /\ t \notin Batched
                               \/ worker'[t] = "spared"
    BY DEF Told
  <2>2. worker'[t] = "unconnected" => clock[t] = "early"
    BY <1>0 DEF SkipConnection, Execute, Collect, Verdict
  <2>3. worker'[t] = "unissued" => st[t] = "pending"
    BY <1>0 DEF SkipConnection, Execute, Collect, Verdict, Withdraws
  <2>4. worker'[t] # "spared"
    BY <1>0 DEF SkipConnection, Execute, Collect, Verdict
  <2>5. ~Handed(t) => runs[t] = 0
    BY <1>0 DEF Handed
  <2>. QED  BY <1>0, <2>1, <2>2, <2>3, <2>4, <2>5 DEF HeldBack
<1>7. Call!Answer(t, Told(t)')
  BY <1>1, <1>2, <1>4, <1>5, <1>6 DEF Call!Answer
<1>8. Told(t)' = "open" => UNCHANGED Call!vars
  BY <1>1, <1>2, <1>3 DEF Call!vars
<1>. QED  BY <1>7, <1>8

(* The answer of a worker that ends is one of those an operator may get. *)
LEMMA AnswerFinal ==
  ASSUME TypeOK, NEW t \in Tasks, SkipConnection(t) \/ Execute(t) \/ Collect(t)
  PROVE  Told(t)' \in Call!Final \cup {"open"}
<1>0. worker \in [Tasks -> Working \cup Verdicts]
  BY DEF TypeOK
<1>1. worker'[t] \in {"withdrawing", "waiting", "failed", "reported", "unissued", "unconnected",
                      "cancelled", "unknown"}
  BY <1>0 DEF SkipConnection, Execute, Collect, Verdict
<1>. QED  BY <1>1 DEF Told, Call!Final, Working

(* A start is one that RemoteCall allows: the first, or after the device   *)
(* forgot, and never of a task the operator was told is spared.            *)
LEMMA StartStep ==
  ASSUME RunsOnceInv, CallInv, Begin
  PROVE  Call!Start(reply.task)
<1>1. /\ pc = "offered" /\ reply.task \notin Remembered /\ reply.task \in Tasks
      /\ runs' = [runs EXCEPT ![reply.task] = @ + 1] /\ UNCHANGED <<worker, forgotten>>
  BY DEF Begin, RunsOnceInv, TypeOK, server
<1>2. runs[reply.task] = 0 \/ reply.task \in forgotten
  <2>1. reply.task # outbox.task
    BY <1>1 DEF RunsOnceInv, OffersFresh
  <2>. QED  BY <1>1, <2>1 DEF RunsOnceInv, StartsRecorded, TypeOK
<1>3. Told(reply.task) # "spared"
  BY <1>1 DEF CallInv, SparedForGood, Handed
<1>4. UNCHANGED [t \in Tasks |-> Told(t)]
  BY <1>1 DEF Told
<1>. QED  BY <1>1, <1>2, <1>3, <1>4 DEF Call!Start

(* SERVER going down loses the answers that were still open. *)
LEMMA LoseStep ==
  ASSUME TypeOK, ServerCrash
  PROVE  \E S \in SUBSET Tasks : Call!Lose(S)
<1>. DEFINE S == {t \in Tasks : worker[t] \in Working \ {"idle"}}
<1>1. /\ UNCHANGED <<runs, forgotten>>
      /\ worker' = [t \in Tasks |-> IF worker[t] \in Working \ {"idle"} THEN "lost" ELSE worker[t]]
  BY DEF ServerCrash
<1>2. \A t \in S : Told(t) = "open"
  BY DEF Told
<1>3. ASSUME NEW t \in Tasks
      PROVE  Told(t)' = IF t \in S THEN "lost" ELSE Told(t)
  BY <1>1 DEF Told, Working
<1>4. Call!Lose(S)
  <2>1. S \subseteq Tasks
    OBVIOUS
  <2>. HIDE DEF S
  <2>. QED  BY <1>1, <1>2, <1>3, <2>1 DEF Call!Lose
<1>. QED  BY <1>4

(* Every step is one of RemoteCall, or changes nothing it speaks of. *)
LEMMA CallMaps ==
  ASSUME RunsOnceInv, CallInv, [Next]_vars
  PROVE  [Call!Next]_(Call!vars)
<1>. USE DEF server, device
<1>0. TypeOK
  BY DEF RunsOnceInv
<1>1. ASSUME UNCHANGED <<worker, runs, forgotten>>
      PROVE  UNCHANGED Call!vars
  BY <1>1 DEF Call!vars, Told
<1>2. ASSUME NEW j \in Jobs, Submit(j) \/ Cancel(j) \/ Finish(j)
      PROVE  UNCHANGED Call!vars
  BY <1>1, <1>2 DEF Submit, Cancel, Finish
<1>3. ASSUME NEW t \in Tasks, SkipConnection(t) \/ Execute(t) \/ Collect(t)
      PROVE  [Call!Next]_(Call!vars)
  <2>1. Call!Answer(t, Told(t)') /\ (Told(t)' = "open" => UNCHANGED Call!vars)
    BY <1>0, <1>3, AnswerStep
  <2>2. Told(t)' \in Call!Final \cup {"open"}
    BY <1>0, <1>3, AnswerFinal
  <2>. QED  BY <2>1, <2>2 DEF Call!Next
<1>4. ASSUME NEW t \in Tasks, PrepareAhead(t) \/ Tick(t)
      PROVE  UNCHANGED Call!vars
  <2>1. UNCHANGED <<runs, forgotten>>
    BY <1>4 DEF PrepareAhead, Tick
  <2>2. \A u \in Tasks : worker'[u] = worker[u] \/ (worker[u] \in Working /\ worker'[u] \in Working)
    BY <1>0, <1>4 DEF PrepareAhead, Tick, TypeOK, Working
  <2>3. \A u \in Tasks : Told(u)' = Told(u)
    BY <2>2 DEF Told
  <2>. QED  BY <2>1, <2>3 DEF Call!vars
<1>5. ASSUME NEW r \in reqs, Exchange(r)
      PROVE  UNCHANGED Call!vars
  BY <1>1, <1>5 DEF Exchange, Deny, LongPoll, Record, Repeat, Wake
<1>6. ASSUME NEW r \in reqs, DropRequest(r)
      PROVE  UNCHANGED Call!vars
  BY <1>1, <1>6 DEF DropRequest
<1>7. CASE Revoke \/ Poll \/ GiveUp \/ AgentCrash
  BY <1>1, <1>7 DEF Revoke, Poll, GiveUp, AgentCrash
<1>8. CASE Acknowledge \/ Refuse \/ Complete \/ AgentRestart
  <2>1. UNCHANGED <<worker, runs>>
    BY <1>8 DEF Acknowledge, Refuse, Complete, AgentRestart
  <2>2. UNCHANGED [t \in Tasks |-> Told(t)]
    BY <2>1 DEF Told
  <2>3. forgotten \subseteq forgotten'
    BY <1>8 DEF Acknowledge, Refuse, Complete, AgentRestart, Post
  <2>4. TypeOK'
    BY <1>0, TypeStep
  <2>5. forgotten' \in SUBSET Tasks /\ forgotten' = forgotten \cup forgotten'
    BY <2>3, <2>4 DEF TypeOK
  <2>6. Call!Forget(forgotten')
    BY <2>1, <2>2, <2>5 DEF Call!Forget
  <2>. QED  BY <2>5, <2>6 DEF Call!Next
<1>9. CASE Begin
  <2>1. reply.task \in Tasks
    BY <1>0, <1>9 DEF Begin, TypeOK
  <2>. QED  BY <1>9, <2>1, StartStep DEF Call!Next
<1>10. CASE ServerCrash
  BY <1>0, <1>10, LoseStep DEF Call!Next
<1>11. CASE UNCHANGED vars
  BY <1>1, <1>11 DEF vars
<1>. QED
  BY <1>2, <1>3, <1>4, <1>5, <1>6, <1>7, <1>8, <1>9, <1>10, <1>11 DEF Next

(* What SERVER tells the operator agrees with what the device does: the    *)
(* queue and the loop together implement RemoteCall.  A task told to be    *)
(* spared never starts, one told to be reported did, answers are final,    *)
(* and a task starts again only after the device forgot it.                *)
THEOREM RemoteCallCorrect == Spec => ImplementsRemoteCall
<1>1. Init => Call!Init
  <2>. SUFFICES ASSUME Init PROVE Call!Init
    OBVIOUS
  <2>1. \A t \in Tasks : Told(t) = "open"
    BY DEF Init, Told, Working
  <2>. QED  BY <2>1 DEF Init, Call!Init
<1>2. Init => RunsOnceInv /\ CallInv
  BY RunsOnceInit, CallInit
<1>3. RunsOnceInv /\ CallInv /\ [Next]_vars => (RunsOnceInv /\ CallInv)'
  BY RunsOnceStep, CallStep DEF RunsOnceInv
<1>4. RunsOnceInv /\ CallInv /\ [Next]_vars => [Call!Next]_(Call!vars)
  BY CallMaps
<1>. QED  BY <1>1, <1>2, <1>3, <1>4, PTL DEF Spec, ImplementsRemoteCall, Call!Spec
===============================================================================

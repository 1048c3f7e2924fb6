--------------------------- MODULE SchedulerProofs ----------------------------
(***************************************************************************)
(* Proofs about Scheduler, for every set of schedules and every bound: its *)
(* types, that a due time is submitted once for each call that set it and  *)
(* that a schedule that is off stays off, whatever fails.                  *)
(***************************************************************************)
EXTENDS Scheduler, FiniteSetTheorems, TLAPS

(* The instant after the clock's is still a time.                          *)
LEMMA NextInstant == ASSUME NEW t \in 0 .. MaxTime PROVE t + 1 \in Times
<1>1. MaxTime \in Nat
  BY SchedulesAssumption
<1>. QED  BY <1>1 DEF Times

(* What the constructors of a stored schedule return.                      *)
LEMMA SchedType ==
  ASSUME NEW i \in Item, NEW en \in BOOLEAN, NEW di \in BOOLEAN, NEW t \in Times
  PROVE  /\ Sched(en, di, t, i.ident) \in Item
         /\ \A id \in Idents : Sched(en, di, t, id) \in Item
         /\ Disabled(i) \in Item /\ Marked(i) \in Item
         /\ \A bad \in BOOLEAN : Reviewed(i, bad) \in Item
  BY DEF Item, Sched, Disabled, Marked, Reviewed, Uncertain

LEMMA AbsentType == Absent \in Item
  BY SchedulesAssumption DEF Absent, Item, Sched, Times

(* The file that a restart writes.                                         *)
LEMMA ReviewedType ==
  ASSUME disk \in [Schedules -> Item], NEW bad \in SUBSET Damage
  PROVE  [s \in Schedules |-> Reviewed(disk[s], bad # {})] \in [Schedules -> Item]
  BY SchedType DEF Item

(* What the checks of a call let through is a schedule.                    *)
LEMMA CheckedType ==
  ASSUME TypeOK, NEW s \in Schedules, NEW e \in Checked(s)
  PROVE  e \in Edit
<1>1. ASSUME NEW en \in BOOLEAN, NEW t \in now + 1 .. MaxTime + 1,
             NEW id \in {inventory[s]} \ {0}
      PROVE  [of |-> s, item |-> Sched(en, FALSE, t, id)] \in Edit
  <2>1. t \in Times
    BY SchedulesAssumption DEF TypeOK, Times
  <2>2. id \in Idents
    BY DEF TypeOK
  <2>3. Sched(en, FALSE, t, id) \in Item
    BY <2>1, <2>2 DEF Item, Sched
  <2>. QED  BY <2>3 DEF Edit
<1>. DEFINE let(en, t, id) == [of |-> s, item |-> Sched(en, FALSE, t, id)]
<1>2. Checked(s) = {let(en, t, id) : en \in BOOLEAN, t \in now + 1 .. MaxTime + 1,
                                     id \in {inventory[s]} \ {0}}
  BY DEF Checked
<1>3. \A en \in BOOLEAN : \A t \in now + 1 .. MaxTime + 1 :
        \A id \in {inventory[s]} \ {0} : let(en, t, id) \in Edit
  BY <1>1
<1>. HIDE DEF let
<1>. QED  BY <1>2, <1>3

(* An operator's call stores a schedule or nothing.                        *)
LEMMA ChangeType ==
  ASSUME TypeOK, NEW s \in Schedules, NEW item \in Item,
         NEW told \in {"none", "on", "off", "unsure"}, Change(s, item, told),
         edits' \subseteq Edit, delays' \in Nat, late' \in [Schedules -> [Times -> Nat]]
  PROVE  TypeOK'
<1>. USE DEF TypeOK
<1>1. Put(s, item) \in [Schedules -> Item]
  BY DEF Put
<1>2. UNCHANGED <<service, tick, now, inventory, moves, jobs, fired>>
  BY DEF Change
<1>3. /\ items' \in [Schedules -> Item] /\ disk' \in [Schedules -> Item]
      /\ failure' \in BOOLEAN /\ stopped' \in BOOLEAN /\ faults' \in Nat
      /\ wish' \in [Schedules -> {"none", "on", "off", "unsure"}]
  <2>1. CASE SaveFails(Put(s, item)) /\ wish' = [wish EXCEPT ![s] = "unsure"] /\ UNCHANGED items
    BY <1>1, <2>1 DEF SaveFails, Fails
  <2>2. CASE /\ items' = Put(s, item) /\ Saved(items') /\ wish' = [wish EXCEPT ![s] = told]
             /\ UNCHANGED <<failure, stopped>>
    BY <1>1, <2>2 DEF Saved
  <2>. QED  BY <2>1, <2>2 DEF Change
<1>4. UNCHANGED <<up, closed, recovery, at, ts, todo, cur, now, inventory, running, manual, fired>>
  BY <1>2 DEF service, tick, jobs
<1>5. UNCHANGED <<crashes, closes, moves, submitted>>
  BY <1>2 DEF service, jobs
<1>. QED  BY <1>3, <1>4, <1>5

-------------------------------------------------------------------------------
(* Types *)

LEMMA TypeInit == Init => TypeOK
<1>. SUFFICES ASSUME Init PROVE TypeOK
  OBVIOUS
<1>1. 0 \in Times /\ 0 \in 0 .. MaxTime
  BY SchedulesAssumption DEF Times
<1>2. [t \in Times |-> 0] \in [Times -> Nat] /\ 1 \in Idents
  BY DEF Idents
<1>3. [s \in Schedules |-> [t \in Times |-> 0]] \in [Schedules -> [Times -> Nat]]
  BY <1>2
<1>4. /\ items \in [Schedules -> Item] /\ disk \in [Schedules -> Item]
      /\ inventory \in [Schedules -> Idents \cup {0}]
  BY <1>2, AbsentType DEF Init
<1>. QED  BY <1>1, <1>3, <1>4 DEF Init, TypeOK

(* The steps of tick keep the types.                                       *)
LEMMA TickType ==
  ASSUME TypeOK,
         \/ TickStart \/ TickLock \/ TickEnd \/ Dispatch \/ Refused \/ Record \/ Abandon
         \/ \E s \in Schedules : Skip(s) \/ Retire(s) \/ Intend(s)
  PROVE  TypeOK'
<1>. USE DEF TypeOK, service, world, jobs, ghosts
<1>0. 0 \in 0 .. MaxTime /\ ts + 1 \in Times
  BY SchedulesAssumption DEF Times
<1>1. CASE TickStart
  BY <1>1, SchedulesAssumption DEF TickStart
<1>2. CASE TickLock
  BY <1>2 DEF TickLock
<1>3. CASE TickEnd
  BY <1>3, <1>0, SchedulesAssumption DEF TickEnd, Rest
<1>4. ASSUME NEW s \in Schedules, Skip(s)
      PROVE  TypeOK'
  BY <1>4 DEF Skip
<1>5. ASSUME NEW s \in Schedules, Retire(s)
      PROVE  TypeOK'
  <2>1. items' \in [Schedules -> Item]
    BY <1>0, <1>5, SchedType DEF Retire, Put
  <2>2. disk' \in [Schedules -> Item] /\ faults' \in Nat
    BY <1>5, <2>1 DEF Retire, Saved, SaveFails, Fails
  <2>3. /\ failure' \in BOOLEAN /\ stopped' \in BOOLEAN
        /\ \/ UNCHANGED <<at, ts, cur>> /\ todo' \subseteq Schedules
           \/ Rest
    BY <1>5 DEF Retire, SaveFails
  <2>4. UNCHANGED <<service, world, jobs, ghosts>>
    BY <1>5 DEF Retire
  <2>5. CASE UNCHANGED <<at, ts, cur>> /\ todo' \subseteq Schedules
    BY <2>1, <2>2, <2>3, <2>4, <2>5
  <2>6. CASE Rest
    BY <1>0, <2>1, <2>2, <2>3, <2>4, <2>6, SchedulesAssumption DEF Rest
  <2>. QED  BY <2>3, <2>5, <2>6
<1>6. ASSUME NEW s \in Schedules, Intend(s)
      PROVE  TypeOK'
  <2>1. items' \in [Schedules -> Item]
    BY <1>0, <1>6, SchedType DEF Intend, Put
  <2>2. disk' \in [Schedules -> Item] /\ faults' \in Nat
    BY <1>6, <2>1 DEF Intend, Saved, SaveFails, Fails
  <2>3. /\ failure' \in BOOLEAN /\ stopped' \in BOOLEAN
        /\ \/ at' = "submitting" /\ cur' = s /\ UNCHANGED <<ts, todo>>
           \/ Rest
    BY <1>6 DEF Intend, SaveFails
  <2>4. UNCHANGED <<service, world, jobs, ghosts>>
    BY <1>6 DEF Intend
  <2>5. CASE at' = "submitting" /\ cur' = s /\ UNCHANGED <<ts, todo>>
    BY <2>1, <2>2, <2>3, <2>4, <2>5, SchedulesAssumption
  <2>6. CASE Rest
    BY <1>0, <2>1, <2>2, <2>3, <2>4, <2>6, SchedulesAssumption DEF Rest
  <2>. QED  BY <2>3, <2>5, <2>6
<1>7. CASE Dispatch
  <2>1. cur \in Schedules /\ items[cur] \in Item /\ items[cur].next \in Times
    BY <1>7 DEF Dispatch, Item
  <2>2. items' \in [Schedules -> Item]
    BY <1>0, <1>7, <2>1, SchedType DEF Dispatch, Put, Spent, Again
  <2>3. running' \subseteq Job
    BY <1>7, <2>1 DEF Dispatch, Job
  <2>4. fired' \in [Schedules -> [Times -> Nat]]
    <3>1. fired[cur][items[cur].next] + 1 \in Nat
      BY <2>1
    <3>. QED  BY <1>7, <2>1, <3>1 DEF Dispatch
  <2>. QED  BY <1>7, <2>2, <2>3, <2>4 DEF Dispatch
<1>8. CASE Refused
  <2>1. cur \in Schedules /\ items[cur] \in Item /\ items[cur].next \in Times
    BY <1>8 DEF Refused, Item
  <2>2. items' \in [Schedules -> Item]
    BY <1>8, <2>1, SchedType DEF Refused, Put, Spent
  <2>. QED  BY <1>8, <2>2 DEF Refused, Fails
<1>9. CASE Record
  <2>1. cur \in Schedules /\ items[cur] \in Item /\ items[cur].next \in Times
    BY <1>9 DEF Record, Item
  <2>2. Put(cur, Spent(cur)) \in [Schedules -> Item]
    BY <2>1, SchedType DEF Put, Spent
  <2>3. CASE Saved(items) /\ GoOn /\ UNCHANGED <<failure, stopped, items>>
    BY <1>9, <2>3 DEF Record, Saved, GoOn
  <2>4. CASE /\ SaveFails(items) /\ items' = Put(cur, Spent(cur))
             /\ at' = "abandoning" /\ UNCHANGED <<ts, todo, cur>>
    BY <1>9, <2>2, <2>4 DEF Record, SaveFails, Fails
  <2>. QED  BY <1>9, <2>3, <2>4 DEF Record
<1>10. CASE Abandon
  <2>1. CASE Saved(items) /\ GoOn /\ UNCHANGED <<failure, stopped>>
    BY <1>10, <2>1 DEF Abandon, Saved, GoOn
  <2>2. CASE SaveFails(items) /\ Rest
    BY <1>0, <1>10, <2>2, SchedulesAssumption DEF Abandon, SaveFails, Fails, Rest
  <2>. QED  BY <1>10, <2>1, <2>2 DEF Abandon
<1>. QED  BY <1>1, <1>2, <1>3, <1>4, <1>5, <1>6, <1>7, <1>8, <1>9, <1>10

(* A call that had to wait for the lock or not, and what it counts.        *)
LEMMA LateType ==
  ASSUME TypeOK, NEW e \in Edit, Store(e)
  PROVE  /\ e.of \in Schedules /\ e.item \in Item /\ e.item.next \in Times
         /\ edits' \subseteq Edit /\ late' \in [Schedules -> [Times -> Nat]]
         /\ \A s \in Schedules : \A t \in Times : late[s][t] <= late'[s][t]
         /\ fired[e.of][e.item.next] > 0 =>
              late'[e.of][e.item.next] = late[e.of][e.item.next] + 1
<1>1. e.of \in Schedules /\ e.item \in Item /\ e.item.next \in Times
  BY DEF Edit, Item
<1>. DEFINE new == IF fired[e.of][e.item.next] > 0 THEN late[e.of][e.item.next] + 1
                   ELSE late[e.of][e.item.next]
<1>2. late' = [late EXCEPT ![e.of][e.item.next] = new]
  BY DEF Store
<1>3. new \in Nat /\ late[e.of][e.item.next] <= new /\ late \in [Schedules -> [Times -> Nat]]
  BY <1>1 DEF TypeOK
<1>4. fired[e.of][e.item.next] > 0 => new = late[e.of][e.item.next] + 1
  OBVIOUS
<1>5. edits' \subseteq Edit
  BY DEF Store, TypeOK
<1>. HIDE DEF new
<1>6. late' \in [Schedules -> [Times -> Nat]] /\ late'[e.of][e.item.next] = new
  BY <1>1, <1>2, <1>3
<1>7. ASSUME NEW s \in Schedules, NEW t \in Times PROVE late[s][t] <= late'[s][t]
  <2>1. late[s][t] \in Nat
    BY <1>3
  <2>2. CASE s = e.of /\ t = e.item.next
    BY <1>3, <1>6, <2>2
  <2>3. CASE s # e.of \/ t # e.item.next
    <3>1. late'[s][t] = late[s][t]
      BY <1>1, <1>2, <1>3, <2>3
    <3>. QED  BY <2>1, <3>1
  <2>. QED  BY <2>2, <2>3
<1>. QED  BY <1>1, <1>4, <1>5, <1>6, <1>7

(* The operators' calls keep the types.                                    *)
LEMMA CallType ==
  ASSUME TypeOK, NEW s \in Schedules,
         \/ Delay(s) \/ Create(s) \/ Update(s) \/ TurnedAway(s)
         \/ Pause(s) \/ Delete(s) \/ Resume(s)
  PROVE  TypeOK'
<1>0. items[s] \in Item /\ items[s].next \in Times /\ items[s].dispatching \in BOOLEAN
  BY DEF TypeOK, Item
<1>1. CASE Create(s) \/ Update(s)
  <2>1. PICK e \in Edit : Store(e)
    BY <1>1, CheckedType DEF Create, Update, TypeOK
  <2>2. /\ e.of \in Schedules /\ e.item \in Item /\ edits' \subseteq Edit
        /\ late' \in [Schedules -> [Times -> Nat]]
    BY <2>1, LateType
  <2>3. Change(e.of, e.item, Word(e.item.enabled)) /\ delays' \in Nat
    BY <2>1 DEF Store, TypeOK
  <2>. QED  BY <2>2, <2>3, ChangeType DEF Word
<1>2. CASE Pause(s) \/ Delete(s)
  <2>1. Disabled(items[s]) \in Item
    BY <1>0, SchedType
  <2>2. UNCHANGED <<edits, delays, late>>
    BY <1>2 DEF Pause, Delete
  <2>3. edits' \subseteq Edit /\ delays' \in Nat /\ late' \in [Schedules -> [Times -> Nat]]
    BY <2>2 DEF TypeOK
  <2>. QED  BY <1>2, <2>1, <2>3, AbsentType, ChangeType DEF Pause, Delete
<1>3. CASE Resume(s)
  <2>1. now + 1 \in Times
    BY NextInstant DEF TypeOK
  <2>2. Resumed(s) \in Item
    BY <1>0, <2>1, SchedType DEF Resumed
  <2>3. edits' \subseteq Edit /\ delays' \in Nat /\ late' \in [Schedules -> [Times -> Nat]]
    BY <1>3 DEF TypeOK, Resume
  <2>. QED  BY <1>3, <2>2, <2>3, ChangeType DEF Resume
<1>4. CASE Delay(s) \/ TurnedAway(s)
  <2>1. edits' \subseteq Edit /\ delays' \in Nat
    BY <1>4, CheckedType DEF Delay, TurnedAway, TypeOK
  <2>2. /\ UNCHANGED <<service, failure, stopped, items, disk, tick, now, inventory, moves>>
        /\ UNCHANGED <<jobs, ghosts, faults>>
    BY <1>4 DEF Delay, TurnedAway
  <2>. QED  BY <2>1, <2>2 DEF TypeOK, service, tick, jobs, ghosts
<1>. QED  BY <1>1, <1>2, <1>3, <1>4

LEMMA TypeStep ==
  ASSUME TypeOK, [Next]_vars
  PROVE  TypeOK'
<1>1. ASSUME NEW s \in Schedules, JobEnds(s) \/ Move(s)
      PROVE  TypeOK'
  BY <1>1 DEF JobEnds, Move, TypeOK, service, tick, world, jobs, ghosts
<1>2. CASE ManualSubmit \/ ManualEnds
  <2>1. manual' \in Nat /\ submitted' \in Nat
    BY <1>2 DEF ManualSubmit, ManualEnds, TypeOK
  <2>. QED  BY <1>2, <2>1 DEF ManualSubmit, ManualEnds, TypeOK, service, tick, world, ghosts
<1>3. CASE Clock
  BY <1>3, SchedulesAssumption DEF Clock, TypeOK, service, tick, jobs, ghosts
<1>4. CASE Close \/ CloseScheduler
  <2>1. CASE Close
    BY <2>1 DEF Close, TypeOK, tick, world, jobs, ghosts
  <2>2. CASE CloseScheduler
    BY <2>2 DEF CloseScheduler, TypeOK, service, tick, world, jobs, ghosts
  <2>. QED  BY <1>4, <2>1, <2>2
<1>5. CASE Exit \/ Crash
  <2>1. Down /\ crashes' \in Nat
    BY <1>5 DEF Exit, Crash, TypeOK
  <2>2. 0 \in 0 .. MaxTime /\ [s \in Schedules |-> Absent] \in [Schedules -> Item]
    BY AbsentType, SchedulesAssumption
  <2>. QED  BY <2>1, <2>2 DEF Down, Rest, TypeOK, world, ghosts
<1>6. CASE Restart
  <2>1. PICK bad \in SUBSET Damage :
          \/ UNCHANGED <<items, disk>>
          \/ /\ items' = [s \in Schedules |-> Reviewed(disk[s], bad # {})]
             /\ disk' = items'
    BY <1>6 DEF Restart
  <2>2. items' \in [Schedules -> Item] /\ disk' \in [Schedules -> Item]
    BY <2>1, ReviewedType DEF TypeOK
  <2>3. recovery' \in BOOLEAN
    BY <1>6 DEF Restart
  <2>4. wish' \in [Schedules -> {"none", "on", "off", "unsure"}]
    BY <1>6 DEF Restart, TypeOK
  <2>. QED  BY <1>6, <2>4, <2>2, <2>3 DEF Restart, TypeOK, tick, world, jobs
<1>7. CASE RestartFails
  <2>1. PICK bad \in SUBSET (Damage \ {"schedules"}) :
          disk' \in {disk, [s \in Schedules |-> Reviewed(disk[s], bad # {})]}
    BY <1>7 DEF RestartFails
  <2>2. bad \in SUBSET Damage
    OBVIOUS
  <2>3. disk' \in [Schedules -> Item]
    BY <2>1, <2>2, ReviewedType DEF TypeOK
  <2>4. faults' \in Nat
    BY <1>7 DEF RestartFails, TypeOK, Fails
  <2>. QED  BY <1>7, <2>3, <2>4 DEF RestartFails, TypeOK, service, tick, world, jobs, ghosts
<1>8. CASE UNCHANGED vars
  BY <1>8 DEF vars, TypeOK, service, tick, world, jobs, ghosts
<1>. QED
  BY TickType, CallType, <1>1, <1>2, <1>3, <1>4, <1>5, <1>6, <1>7, <1>8 DEF Next

(* Every variable keeps its type in every reachable state.                 *)
THEOREM TypeCorrect == Spec => []TypeOK
<1>. QED  BY TypeInit, TypeStep, PTL DEF Spec

-------------------------------------------------------------------------------
(* A due time is submitted once for each call that set it; what is off     *)
(* stays off *)

(* An operator's call keeps the invariant: what it stores is due at a time *)
(* that may be submitted again, or disabled, and every other schedule goes *)
(* to disk as it is in memory.                                             *)
LEMMA ChangeInv ==
  ASSUME SchedInv, TypeOK', NEW s \in Schedules, NEW item \in Item,
         NEW told \in {"none", "on", "off", "unsure"}, Change(s, item, told),
         at \in {"idle", "waiting"},
         \A k \in Schedules : \A t \in Times : late[k][t] <= late'[k][t],
         item.enabled => told # "off" /\ fired[s][item.next] <= late'[s][item.next]
  PROVE  SchedInv'
<1>1. /\ UNCHANGED <<up, at, ts, cur, now, fired>>
      /\ \/ items' = Put(s, item) /\ disk' = Put(s, item) /\ wish' = [wish EXCEPT ![s] = told]
         \/ /\ items' = items /\ disk' \in {disk, Put(s, item)}
            /\ wish' = [wish EXCEPT ![s] = "unsure"]
  BY DEF Change, Saved, SaveFails, service, tick
<1>2. TickAgrees'
  BY <1>1 DEF SchedInv, TickAgrees
<1>3. ASSUME NEW k \in Schedules PROVE SchedAgrees(k)'
  <2>0. SchedAgrees(k) /\ TypeOK
    BY DEF SchedInv
  <2>1. \A t \in Times : fired[k][t] \in Nat /\ late[k][t] \in Nat /\ late'[k][t] \in Nat
    BY <2>0 DEF TypeOK
  <2>2. /\ items[k].next \in Times /\ disk[k].next \in Times /\ item.next \in Times
    BY <2>0 DEF TypeOK, Item
  <2>3. /\ items[k].enabled => fired[k][items[k].next] <= late'[k][items[k].next]
        /\ disk[k].enabled /\ ~disk[k].dispatching =>
             fired[k][disk[k].next] <= late'[k][disk[k].next]
        /\ \A t \in Times : fired[k][t] <= 1 + late'[k][t]
    BY <2>0, <2>1, <2>2 DEF SchedAgrees
  <2>4. CASE k # s
    <3>1. items'[k] = items[k] /\ disk'[k] \in {disk[k], items[k]} /\ wish'[k] = wish[k]
      BY <1>1, <2>0, <2>4 DEF Put, TypeOK
    <3>. QED  BY <1>1, <2>0, <2>3, <3>1 DEF SchedAgrees
  <2>5. CASE k = s
    <3>1. \/ items'[k] = item /\ disk'[k] = item /\ wish'[k] = told
          \/ items'[k] = items[k] /\ disk'[k] \in {disk[k], item} /\ wish'[k] = "unsure"
      BY <1>1, <2>0, <2>5 DEF Put, TypeOK
    <3>. QED  BY <1>1, <2>0, <2>3, <2>5, <3>1 DEF SchedAgrees
  <2>. QED  BY <2>4, <2>5
<1>. QED  BY <1>2, <1>3 DEF SchedInv

(* The operators' calls.  A time in the future has not been submitted, and *)
(* a call that comes late is counted.                                      *)
LEMMA CallInv ==
  ASSUME SchedInv, TypeOK', NEW s \in Schedules,
         \/ Delay(s) \/ Create(s) \/ Update(s) \/ TurnedAway(s)
         \/ Pause(s) \/ Delete(s) \/ Resume(s)
  PROVE  SchedInv'
<1>0. /\ TypeOK /\ TickAgrees /\ \A k \in Schedules : SchedAgrees(k)
      /\ items[s] \in Item /\ items[s].next \in Times /\ items[s].dispatching \in BOOLEAN
      /\ now \in Nat
  BY DEF SchedInv, TypeOK, Item
<1>2. ASSUME NEW t \in Times, t > now PROVE fired[s][t] = 0
  <2>1. fired[s][t] \in Nat
    BY <1>0 DEF TypeOK
  <2>2. t \in Nat /\ ~(t <= now)
    BY <1>0, <1>2, SchedulesAssumption DEF Times
  <2>. QED  BY <1>0, <2>1, <2>2 DEF SchedAgrees
<1>3. CASE Create(s) \/ Update(s)
  <2>1. PICK e \in Edit : Store(e)
    BY <1>0, <1>3, CheckedType DEF Create, Update, TypeOK
  <2>2. /\ e.of \in Schedules /\ e.item \in Item /\ e.item.next \in Times
        /\ \A k \in Schedules : \A t \in Times : late[k][t] <= late'[k][t]
        /\ fired[e.of][e.item.next] > 0 =>
             late'[e.of][e.item.next] = late[e.of][e.item.next] + 1
    BY <1>0, <2>1, LateType
  <2>3. /\ Change(e.of, e.item, Word(e.item.enabled)) /\ at \in {"idle", "waiting"}
    BY <2>1 DEF Store, Unlocked
  <2>4. fired[e.of][e.item.next] <= late'[e.of][e.item.next]
    <3>1. /\ fired[e.of][e.item.next] \in Nat /\ late[e.of][e.item.next] \in Nat
          /\ late'[e.of][e.item.next] \in Nat
      BY <1>0, <2>2 DEF TypeOK
    <3>2. fired[e.of][e.item.next] <= 1 + late[e.of][e.item.next]
      BY <1>0, <2>2 DEF SchedAgrees
    <3>. QED  BY <2>2, <3>1, <3>2
  <2>5. /\ Word(e.item.enabled) \in {"none", "on", "off", "unsure"}
        /\ e.item.enabled => Word(e.item.enabled) # "off"
    BY DEF Word
  <2>. QED  BY <2>2, <2>3, <2>4, <2>5, ChangeInv
<1>4. ASSUME Pause(s) \/ Delete(s) \/ Resume(s)
      PROVE  /\ at \in {"idle", "waiting"} /\ late' = late
             /\ \A k \in Schedules : \A t \in Times : late[k][t] <= late'[k][t]
  <2>1. at \in {"idle", "waiting"} /\ late' = late
    BY <1>4 DEF Pause, Delete, Resume, Unlocked
  <2>2. \A k \in Schedules : \A t \in Times : late[k][t] \in Nat
    BY <1>0 DEF TypeOK
  <2>. QED  BY <2>1, <2>2
<1>5. CASE Pause(s) \/ Delete(s)
  <2>1. Disabled(items[s]) \in Item
    BY <1>0, SchedType
  <2>2. ~Disabled(items[s]).enabled /\ ~Absent.enabled
    BY DEF Disabled, Absent, Sched
  <2>. QED  BY <1>4, <1>5, <2>1, <2>2, AbsentType, ChangeInv DEF Pause, Delete
<1>6. CASE Resume(s)
  <2>1. now + 1 \in Times
    <3>1. now \in 0 .. MaxTime
      BY <1>0 DEF TypeOK
    <3>. QED  BY <3>1, NextInstant
  <2>2. Resumed(s) \in Item
    BY <1>0, <2>1, SchedType DEF Resumed
  <2>3. Resumed(s).next \in Times /\ Resumed(s).next > now
    BY <1>0, <2>1 DEF Resumed, Sched, Times
  <2>4. fired[s][Resumed(s).next] = 0
    BY <1>2, <2>3
  <2>5. late[s][Resumed(s).next] \in Nat
    BY <1>0, <2>3 DEF TypeOK
  <2>6. fired[s][Resumed(s).next] <= late'[s][Resumed(s).next]
    BY <1>4, <1>6, <2>4, <2>5
  <2>. QED  BY <1>4, <1>6, <2>2, <2>6, ChangeInv DEF Resume
<1>7. CASE Delay(s) \/ TurnedAway(s)
  <2>1. UNCHANGED <<service, items, disk, tick, now, ghosts>>
    BY <1>7 DEF Delay, TurnedAway
  <2>. QED  BY <1>0, <2>1 DEF SchedInv, TickAgrees, SchedAgrees, service, tick, ghosts
<1>. QED  BY <1>3, <1>5, <1>6, <1>7

(* What tick stores is what it has in memory: the schedule s and the       *)
(* others, each of which may be stored as it is.                           *)
LEMMA StoreInv ==
  ASSUME SchedInv, NEW s \in Schedules, NEW item \in Item,
         UNCHANGED <<fired, late, wish, now>>, at' # "idle" => ts' = ts /\ at # "idle",
         item.enabled => items[s].enabled /\ item.next = items[s].next,
         items' = Put(s, item), disk' \in {disk, items, items'}
  PROVE  \A k \in Schedules : SchedAgrees(k)'
<1>. SUFFICES ASSUME NEW k \in Schedules PROVE SchedAgrees(k)'
  OBVIOUS
<1>0. SchedAgrees(k) /\ SchedAgrees(s) /\ TypeOK
  BY DEF SchedInv
<1>1. CASE k # s
  <2>1. items'[k] = items[k] /\ disk'[k] \in {disk[k], items[k]}
    BY <1>0, <1>1 DEF Put, TypeOK
  <2>. QED  BY <1>0, <2>1 DEF SchedAgrees
<1>2. CASE k = s
  <2>1. items'[k] = item /\ disk'[k] \in {disk[k], items[k], item}
    BY <1>0, <1>2 DEF Put, TypeOK
  <2>. QED  BY <1>0, <1>2, <2>1 DEF SchedAgrees
<1>. QED  BY <1>1, <1>2

(* Submitting the job of the schedule in hand.                             *)
LEMMA DispatchInv ==
  ASSUME SchedInv, TypeOK', Dispatch
  PROVE  SchedInv'
<1>0. /\ TypeOK /\ cur \in Schedules /\ items[cur].next \in Times
      /\ items[cur].enabled /\ items[cur].next <= ts /\ disk[cur].dispatching
      /\ ts <= now /\ up /\ now \in Nat /\ ts \in Nat
  BY DEF SchedInv, TickAgrees, TypeOK, Dispatch, Item
<1>1. /\ UNCHANGED <<disk, late, wish, ts, now, up>> /\ at' = "recording"
      /\ fired' = [fired EXCEPT ![cur][items[cur].next] = @ + 1]
      /\ items' = Put(cur, IF cur \in Once THEN Spent(cur) ELSE Again(cur))
  BY DEF Dispatch, service, world
<1>2. TickAgrees'
  BY <1>0, <1>1 DEF TickAgrees
<1>3. ASSUME NEW k \in Schedules PROVE SchedAgrees(k)'
  <2>0. SchedAgrees(k) /\ at = "submitting"
    BY DEF SchedInv, Dispatch
  <2>1. CASE k # cur
    <3>1. items'[k] = items[k] /\ fired'[k] = fired[k]
      BY <1>0, <1>1, <2>1 DEF Put, TypeOK
    <3>. QED  BY <1>1, <2>0, <3>1 DEF SchedAgrees
  <2>2. CASE k = cur
    <3>1. fired[k][items[k].next] <= late[k][items[k].next] /\ wish[k] # "off"
      BY <1>0, <2>0, <2>2 DEF SchedAgrees
    <3>2. \A t \in Times : fired'[k][t] = IF t = items[k].next THEN fired[k][t] + 1 ELSE fired[k][t]
      BY <1>0, <1>1, <2>2, <3>1 DEF TypeOK
    <3>3. items'[k].enabled => items'[k].next = ts + 1
      BY <1>0, <1>1, <2>2 DEF TypeOK, Put, Spent, Again, Sched
    <3>7. \A t \in Times : fired[k][t] \in Nat /\ late[k][t] \in Nat
      BY <1>0 DEF TypeOK
    <3>4. ts + 1 \in Times /\ fired'[k][ts + 1] = 0
      <4>1. items[k].next \in Nat
        BY <1>0, <2>2, SchedulesAssumption DEF Times
      <4>2. ts + 1 # items[k].next
        BY <1>0, <2>2, <4>1
      <4>3. ts + 1 \in Times
        <5>1. ts \in 0 .. MaxTime
          BY <1>0 DEF TypeOK
        <5>. QED  BY <5>1, NextInstant
      <4>5. fired[k][ts + 1] = 0
        BY <1>0, <2>0, <4>3, <3>7 DEF SchedAgrees
      <4>. QED  BY <3>2, <4>2, <4>3, <4>5
    <3>8. fired'[k][ts + 1] <= late[k][ts + 1]
      BY <3>4, <3>7
    <3>5. ASSUME NEW t \in Times
          PROVE  fired'[k][t] <= 1 + late[k][t] /\ (fired'[k][t] > 0 => t <= now /\ t <= ts)
      <4>1. CASE t = items[k].next
        <5>1. fired'[k][t] = fired[k][t] + 1 /\ fired[k][t] <= late[k][t]
          BY <3>1, <3>2, <4>1
        <5>2. t <= ts /\ t <= now
          BY <1>0, <2>2, <4>1 DEF Times
        <5>. QED  BY <3>7, <5>1, <5>2
      <4>2. CASE t # items[k].next
        BY <1>0, <2>0, <3>2, <4>2 DEF SchedAgrees
      <4>. QED  BY <4>1, <4>2
    <3>6. disk'[k].dispatching
      BY <1>0, <1>1, <2>2
    <3>. QED  BY <1>1, <3>1, <3>3, <3>4, <3>8, <3>5, <3>6 DEF SchedAgrees
  <2>. QED  BY <2>1, <2>2
<1>. QED  BY <1>2, <1>3 DEF SchedInv

(* The other steps of tick.                                                *)
LEMMA TickInv ==
  ASSUME SchedInv, TypeOK',
         \/ TickStart \/ TickLock \/ TickEnd \/ Refused \/ Record \/ Abandon
         \/ \E s \in Schedules : Skip(s) \/ Retire(s) \/ Intend(s)
  PROVE  SchedInv'
<1>0. TypeOK /\ TickAgrees /\ \A k \in Schedules : SchedAgrees(k)
  BY DEF SchedInv
<1>1. UNCHANGED <<up, now, fired, late, wish>>
  BY DEF TickStart, TickLock, TickEnd, Refused, Record, Abandon, Skip, Retire, Intend,
     service, world, ghosts
<1>2. CASE TickStart
  <2>1. UNCHANGED <<items, disk>> /\ at' = "waiting" /\ ts' = now /\ up
    BY <1>2 DEF TickStart
  <2>. QED  BY <1>0, <1>1, <2>1 DEF SchedInv, TickAgrees, SchedAgrees, TypeOK
<1>3. CASE TickLock \/ TickEnd \/ \E s \in Schedules : Skip(s)
  <2>1. /\ UNCHANGED <<items, disk>> /\ at # "idle"
        /\ at' \in {"looking", "idle"} /\ (at' # "idle" => ts' = ts) /\ ts' \in {ts, 0}
    BY <1>3 DEF TickLock, TickEnd, Skip, Rest
  <2>2. TickAgrees'
    BY <1>0, <1>1, <2>1 DEF TickAgrees, TypeOK
  <2>. QED  BY <1>0, <1>1, <2>1, <2>2 DEF SchedInv, SchedAgrees
<1>4. ASSUME NEW s \in Schedules, Retire(s)
      PROVE  SchedInv'
  <2>1. /\ items' = Put(s, Disabled(items[s])) /\ disk' \in {disk, items'}
        /\ at = "looking" /\ at' \in {"looking", "idle"}
        /\ (at' # "idle" => ts' = ts) /\ ts' \in {ts, 0}
    BY <1>4 DEF Retire, Saved, SaveFails, Rest
  <2>2. Disabled(items[s]) \in Item /\ ~Disabled(items[s]).enabled
    <3>1. items[s] \in Item /\ items[s].next \in Times
      BY <1>0 DEF TypeOK, Item
    <3>. QED  BY <3>1, SchedType DEF Disabled, Sched
  <2>3. \A k \in Schedules : SchedAgrees(k)'
    BY <1>1, <2>1, <2>2, StoreInv
  <2>4. TickAgrees'
    BY <1>0, <1>1, <2>1 DEF TickAgrees, TypeOK
  <2>. QED  BY <2>3, <2>4 DEF SchedInv
<1>5. ASSUME NEW s \in Schedules, Intend(s)
      PROVE  SchedInv'
  <2>1. /\ items' = Put(s, Marked(items[s])) /\ disk' \in {disk, items'}
        /\ at = "looking" /\ Due(s)
        /\ \/ at' = "submitting" /\ cur' = s /\ ts' = ts /\ disk' = items'
           \/ at' = "idle" /\ ts' = 0
    BY <1>5 DEF Intend, Saved, SaveFails, Rest
  <2>2. /\ Marked(items[s]) \in Item /\ Marked(items[s]).dispatching
        /\ Marked(items[s]).enabled = items[s].enabled /\ Marked(items[s]).next = items[s].next
    <3>1. items[s] \in Item /\ items[s].next \in Times
      BY <1>0 DEF TypeOK, Item
    <3>. QED  BY <3>1, SchedType DEF Marked, Sched
  <2>3. \A k \in Schedules : SchedAgrees(k)'
    BY <1>1, <2>1, <2>2, StoreInv
  <2>4. items'[s] = Marked(items[s])
    BY <1>0, <2>1 DEF Put, TypeOK
  <2>5. ts \in Nat /\ now \in Nat /\ up
    BY <1>0, <2>1 DEF TypeOK, TickAgrees
  <2>6. CASE at' = "submitting" /\ cur' = s /\ ts' = ts /\ disk' = items'
    <3>1. items'[s].enabled /\ items'[s].next <= ts
      BY <2>1, <2>2, <2>4 DEF Due
    <3>. QED  BY <1>0, <1>1, <2>2, <2>3, <2>4, <2>5, <2>6, <3>1 DEF SchedInv, TickAgrees
  <2>7. CASE at' = "idle" /\ ts' = 0
    BY <1>1, <2>3, <2>5, <2>7 DEF SchedInv, TickAgrees
  <2>. QED  BY <2>1, <2>6, <2>7
<1>6. CASE Refused
  <2>1. /\ items' = Put(cur, Spent(cur)) /\ UNCHANGED <<disk, ts>>
        /\ at = "submitting" /\ at' = "abandoning"
    BY <1>6 DEF Refused
  <2>2. cur \in Schedules /\ Spent(cur) \in Item /\ ~Spent(cur).enabled
    BY <1>0, <2>1, SchedType DEF TypeOK, Spent, Sched, Item
  <2>3. \A k \in Schedules : SchedAgrees(k)'
    BY <1>1, <2>1, <2>2, StoreInv
  <2>4. TickAgrees'
    BY <1>0, <1>1, <2>1 DEF TickAgrees
  <2>. QED  BY <2>3, <2>4 DEF SchedInv
<1>7. CASE Record \/ Abandon
  <2>0. at \in {"recording", "abandoning"} /\ cur \in Schedules /\ items[cur] \in Item
    BY <1>0, <1>7 DEF Record, Abandon, TypeOK
  <2>1. /\ items' = items \/ items' = Put(cur, Spent(cur))
        /\ disk' \in {disk, items}
        /\ at' \in {"looking", "abandoning", "idle"}
        /\ (at' # "idle" => ts' = ts) /\ ts' \in {ts, 0}
    BY <1>7 DEF Record, Abandon, Saved, SaveFails, GoOn, Rest
  <2>2. PICK item \in Item :
          items' = Put(cur, item) /\ (item.enabled => item = items[cur])
    <3>1. CASE items' = items
      <4>1. items' = Put(cur, items[cur])
        BY <1>0, <2>0, <3>1 DEF Put, TypeOK
      <4>. QED  BY <2>0, <4>1
    <3>2. CASE items' = Put(cur, Spent(cur))
      <4>1. Spent(cur) \in Item /\ ~Spent(cur).enabled
        BY <2>0, SchedType DEF Spent, Sched, Item
      <4>. QED  BY <3>2, <4>1
    <3>. QED  BY <2>1, <3>1, <3>2
  <2>3. \A k \in Schedules : SchedAgrees(k)'
    BY <1>1, <2>0, <2>1, <2>2, StoreInv
  <2>4. TickAgrees'
    BY <1>0, <1>1, <2>0, <2>1 DEF TickAgrees, TypeOK
  <2>. QED  BY <2>3, <2>4 DEF SchedInv
<1>. QED  BY <1>2, <1>3, <1>4, <1>5, <1>6, <1>7

(* The service goes down or comes up again.                                *)
LEMMA LifeInv ==
  ASSUME SchedInv, TypeOK', Exit \/ Crash \/ Restart \/ RestartFails
  PROVE  SchedInv'
<1>0. TypeOK /\ TickAgrees /\ \A k \in Schedules : SchedAgrees(k)
  BY DEF SchedInv
<1>1. CASE Exit \/ Crash
  <2>1. /\ items' = [k \in Schedules |-> Absent] /\ ~Absent.enabled
        /\ at' = "idle" /\ ts' = 0 /\ UNCHANGED <<disk, fired, late, wish, now>>
    BY <1>1 DEF Exit, Crash, Down, Rest, ghosts, Absent, Sched
  <2>2. TickAgrees'
    BY <1>0, <2>1 DEF TickAgrees, TypeOK
  <2>. QED  BY <1>0, <2>1, <2>2 DEF SchedInv, SchedAgrees
<1>2. ASSUME NEW k \in Schedules, NEW bad \in BOOLEAN
      PROVE  /\ Reviewed(disk[k], bad).enabled =>
                  /\ Reviewed(disk[k], bad) = disk[k] /\ ~Uncertain(disk[k], bad)
                  /\ ~disk[k].dispatching
             /\ Uncertain(disk[k], bad) => ~Reviewed(disk[k], bad).enabled
  BY DEF Reviewed, Uncertain, Sched
<1>3. CASE Restart \/ RestartFails
  <2>0. ~up /\ at = "idle" /\ UNCHANGED <<at, ts, cur, now, fired, late>>
    BY <1>0, <1>3 DEF Restart, RestartFails, TickAgrees, tick, world, ghosts
  <2>1. TickAgrees'
    BY <1>0, <2>0 DEF TickAgrees
  <2>2. CASE RestartFails
    <3>1. PICK bad \in BOOLEAN :
            disk' \in {disk, [k \in Schedules |-> Reviewed(disk[k], bad)]}
      BY <2>2 DEF RestartFails
    <3>2. UNCHANGED <<items, wish>>
      BY <2>2 DEF RestartFails, ghosts
    <3>3. \A k \in Schedules : disk'[k] = disk[k] \/ disk'[k] = Reviewed(disk[k], bad)
      BY <3>1
    <3>. QED  BY <1>0, <1>2, <2>0, <2>1, <3>2, <3>3 DEF SchedInv, SchedAgrees
  <2>3. CASE Restart
    <3>1. PICK bad \in BOOLEAN :
            \/ UNCHANGED <<items, disk, wish>>
            \/ /\ items' = [k \in Schedules |-> Reviewed(disk[k], bad)]
               /\ disk' = items'
               /\ wish' = [k \in Schedules |->
                    IF Uncertain(disk[k], bad) THEN "off" ELSE wish[k]]
      BY <2>3 DEF Restart
    <3>2. CASE UNCHANGED <<items, disk, wish>>
      BY <1>0, <2>0, <2>1, <3>2 DEF SchedInv, SchedAgrees
    <3>3. CASE \A k \in Schedules :
                 /\ items'[k] = Reviewed(disk[k], bad) /\ disk'[k] = items'[k]
                 /\ wish'[k] = IF Uncertain(disk[k], bad) THEN "off" ELSE wish[k]
      BY <1>0, <1>2, <2>0, <2>1, <3>3 DEF SchedInv, SchedAgrees
    <3>. QED  BY <3>1, <3>2, <3>3
  <2>. QED  BY <1>3, <2>2, <2>3
<1>. QED  BY <1>1, <1>3

LEMMA InvStep ==
  ASSUME SchedInv, [Next]_vars
  PROVE  SchedInv'
<1>0. TypeOK'
  BY TypeStep DEF SchedInv
<1>1. ASSUME \/ ManualSubmit \/ ManualEnds \/ Close \/ CloseScheduler \/ UNCHANGED vars
             \/ \E s \in Schedules : JobEnds(s) \/ Move(s)
      PROVE  SchedInv'
  <2>1. UNCHANGED <<up, items, disk, at, ts, cur, now, fired, late, wish>>
    BY <1>1 DEF ManualSubmit, ManualEnds, Close, CloseScheduler, JobEnds, Move, vars, service,
       tick, world, ghosts
  <2>. QED  BY <1>0, <2>1 DEF SchedInv, TickAgrees, SchedAgrees
<1>2. CASE Clock
  <2>1. UNCHANGED <<up, items, disk, at, ts, cur, fired, late, wish>> /\ now' = now + 1
    BY <1>2 DEF Clock, service, tick, ghosts
  <2>2. now \in Nat /\ ts \in Nat /\ Times \subseteq Nat
    BY SchedulesAssumption DEF SchedInv, TypeOK, Times
  <2>3. TickAgrees'
    BY <2>1, <2>2 DEF SchedInv, TickAgrees
  <2>4. ASSUME NEW s \in Schedules PROVE SchedAgrees(s)'
    BY <2>1, <2>2 DEF SchedInv, SchedAgrees
  <2>. QED  BY <1>0, <2>3, <2>4 DEF SchedInv
<1>. QED  BY <1>0, <1>1, <1>2, CallInv, DispatchInv, TickInv, LifeInv DEF Next

(* An enabled schedule, in memory or on disk, has a due time that was      *)
(* submitted less often than it was set, unless it is marked: the          *)
(* inductive invariant.                                                    *)
THEOREM InvCorrect == Spec => []SchedInv
<1>1. Init => SchedInv
  <2>. SUFFICES ASSUME Init PROVE SchedInv
    OBVIOUS
  <2>1. TickAgrees /\ \A s \in Schedules : SchedAgrees(s)
    BY DEF Init, TickAgrees, SchedAgrees, Absent, Sched
  <2>. QED  BY <2>1, TypeInit DEF SchedInv
<1>. QED  BY <1>1, InvStep, PTL DEF Spec

(* The job for a due time is submitted once, and once more for each call   *)
(* that set it after it had been submitted.                                *)
THEOREM SubmittedOnce == Spec => []FiresOnce
<1>1. SchedInv => FiresOnce
  BY DEF SchedInv, SchedAgrees, FiresOnce
<1>. QED  BY <1>1, InvCorrect, PTL

(* A schedule that is paused, deleted or put on hold stays off.            *)
THEOREM OffIsOff == Spec => []OffStaysOff
<1>1. SchedInv => OffStaysOff
  BY DEF SchedInv, SchedAgrees, OffStaysOff
<1>. QED  BY <1>1, InvCorrect, PTL

-------------------------------------------------------------------------------
(* Jobs of one schedule *)

(* A schedule has one job at most, and none while the next one is being    *)
(* submitted: nothing else submits jobs of schedules.                      *)
OneEach ==
  /\ running \subseteq Job
  /\ \A j, k \in running : j.of = k.of => j = k
  /\ at = "submitting" => cur \in Schedules /\ ~Active(cur)

LEMMA OneEachStep ==
  ASSUME SchedInv, SchedInv', OneEach, [Next]_vars
  PROVE  OneEach'
<1>1. CASE Dispatch
  <2>. DEFINE new == [of |-> cur, due |-> items[cur].next]
  <2>1. /\ at' = "recording" /\ running' = running \cup {new} /\ cur \in Schedules
        /\ \A j \in running : j.of # cur
    BY <1>1 DEF Dispatch, OneEach, Active
  <2>2. running' \subseteq Job
    BY DEF SchedInv, TypeOK
  <2>3. \A j, k \in running' : j.of = k.of => j = k
    BY <2>1 DEF OneEach
  <2>. QED  BY <2>1, <2>2, <2>3 DEF OneEach
<1>2. ASSUME NEW s \in Schedules, Intend(s) PROVE OneEach'
  <2>1. running' = running /\ ~Active(s)
    BY <1>2 DEF Intend, MustWait, jobs
  <2>2. (at' = "submitting" /\ cur' = s) \/ at' = "idle"
    BY <1>2 DEF Intend, Rest
  <2>. QED  BY <2>1, <2>2 DEF OneEach, Active
<1>3. ASSUME running' \subseteq running, at' # "submitting" \/ (at' = at /\ cur' = cur)
      PROVE  OneEach'
  BY <1>3 DEF OneEach, Active
<1>4. ASSUME NEW s \in Schedules,
             \/ Delay(s) \/ Create(s) \/ Update(s) \/ TurnedAway(s)
             \/ Pause(s) \/ Delete(s) \/ Resume(s)
      PROVE  OneEach'
  <2>1. UNCHANGED <<tick, jobs>>
    BY <1>4 DEF Delay, Create, Update, TurnedAway, Store, Pause, Delete, Resume, Change
  <2>. QED  BY <1>3, <2>1 DEF tick, jobs
<1>5. ASSUME NEW s \in Schedules, Skip(s) \/ Retire(s) \/ JobEnds(s) \/ Move(s)
      PROVE  OneEach'
  BY <1>3, <1>5 DEF Skip, Retire, Rest, JobEnds, Move, tick, jobs
<1>6. CASE TickStart \/ TickLock \/ TickEnd \/ Refused \/ Record \/ Abandon
  BY <1>3, <1>6 DEF TickStart, TickLock, TickEnd, Refused, Record, Abandon, Rest, GoOn, jobs
<1>7. CASE ManualSubmit \/ ManualEnds \/ Clock \/ Close \/ CloseScheduler \/ UNCHANGED vars
  BY <1>3, <1>7 DEF ManualSubmit, ManualEnds, Clock, Close, CloseScheduler, vars, tick, jobs
<1>8. CASE Exit \/ Crash \/ Restart \/ RestartFails
  BY <1>3, <1>8 DEF Exit, Crash, Down, Rest, Restart, RestartFails, tick, jobs
<1>. QED  BY <1>1, <1>2, <1>4, <1>5, <1>6, <1>7, <1>8 DEF Next

(* The jobs of one schedule never overlap: a schedule is looked at again   *)
(* only when its job has ended, whoever else submits jobs meanwhile.       *)
THEOREM JobsAreApart == Spec => []NoOverlap
<1>1. Init => OneEach
  BY DEF Init, OneEach
<1>2. OneEach => NoOverlap
  <2>. SUFFICES ASSUME OneEach, NEW s \in Schedules
                PROVE  Cardinality({j \in running : j.of = s}) <= 1
    BY DEF NoOverlap
  <2>1. CASE {j \in running : j.of = s} = {}
    BY <2>1, FS_EmptySet
  <2>2. CASE {j \in running : j.of = s} # {}
    <3>1. PICK j \in running : j.of = s
      BY <2>2
    <3>2. {k \in running : k.of = s} = {j}
      BY <3>1 DEF OneEach
    <3>3. Cardinality({j}) = 1
      BY FS_Singleton
    <3>4. Cardinality({k \in running : k.of = s}) = 1
      BY <3>2, <3>3
    <3>. QED  BY <3>4
  <2>. QED  BY <2>1, <2>2
<1>. QED  BY <1>1, <1>2, InvCorrect, OneEachStep, PTL DEF Spec
===============================================================================

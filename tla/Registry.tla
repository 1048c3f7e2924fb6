------------------------------- MODULE Registry -------------------------------
(***************************************************************************)
(* Which Windows devices SERVER knows (server/agents.py: hello, exchange,  *)
(* register, finish_registration, configure, revoke), and the inventory    *)
(* that they share with the operators' GUI (service.py: save_inventory).   *)
(*                                                                         *)
(* Every handler holds service.lock, so that handlers do not interleave,   *)
(* except where exchange waits.  But a handler replaces up to four files   *)
(* one after the other, each write may raise with the old file or the new  *)
(* one left behind, and SERVER may stop between any two of them: "op" is   *)
(* the handler at work, and every write is a step.                         *)
(*                                                                         *)
(* A hostname is <<what the device calls itself, device, n>>, where n      *)
(* counts the suffixes "-agent-<device>" added to it.                      *)
(*                                                                         *)
(* Left out: keys, signatures, rate limits and capacities, networks and    *)
(* addresses, the expiry of the policy (it closes like any other), CI      *)
(* observations; tasks and results are in AgentTasks, with the short wait  *)
(* that follows the report of a backup, which reads the record again too.  *)
(***************************************************************************)
EXTENDS Naturals, FiniteSets

CONSTANTS
  Devices,
  Names,            \* what machines call themselves
  None,
  Limits,           \* values of max_new an administrator may choose
  MaxFaults,        \* bound: writes that raise
  MaxCrashes,       \* bound: crashes
  MaxConfigs,       \* bound: changes of the enrolment policy
  MaxSaves          \* bound: inventories saved by the GUI

ASSUME RegistryAssumption ==
  /\ None \notin Devices \cup Names
  /\ IsFiniteSet(Devices)
  /\ Limits \subseteq Nat \ {0}
  /\ \A n \in {MaxFaults, MaxCrashes, MaxConfigs, MaxSaves} : n \in Nat

VARIABLES
  inv,              \* inventory.json.enc: rows with the name and the agent_id they carry
  bound, boundDisk, \* bindings in memory and in bindings.json.enc: name -> device
  rec, recDisk,     \* device records in memory (the cache) and on disk
  pol, polDisk,     \* the enrolment policy
  op,               \* the handler that holds service.lock
  challenges,       \* devices whose hello was answered
  waiting,          \* devices whose exchange is in wait_for
  view,             \* the names the GUI has read; None: it reads them again
  stamp,            \* ghost: the policy under which it was last counted, the count being saved
  gone,             \* ghost: devices whose removal was reported as done
  faults, crashes, configs, saves

registry == <<inv, bound, boundDisk, rec, recDisk>>
policy == <<pol, polDisk>>
ghosts == <<stamp, gone>>
bounds == <<faults, crashes, configs, saves>>
vars == <<registry, policy, op, challenges, waiting, view, ghosts, bounds>>

-------------------------------------------------------------------------------
(* Types *)

Plain(n) == <<n, None, 0>>
Hosts == {Plain(n) : n \in Names} \cup (Names \X Devices \X {1, 2})
Suffixed(h, d) == <<h[1], d, h[3] + 1>>

Device == Devices \cup {None}
Row == [host : Hosts, agent : Device]
Record == [host : Hosts, pending : BOOLEAN, revoked : BOOLEAN, removed : BOOLEAN,
           uninstalled : BOOLEAN, seen : BOOLEAN]
ASSUME NoneAssumption == None \notin Record

Policy == [open : BOOLEAN, max : Limits, used : Nat, epoch : 0..MaxConfigs]
Places == {"idle", "register", "enlist", "bind", "count", "settle", "answer",
           "revoke", "remove", "unbind", "unlist", "drop"}
Op == [at : Places, dev : Device, host : Hosts \cup {None},
       todo : SUBSET Devices, names : SUBSET Hosts]

Idle == [at |-> "idle", dev |-> None, host |-> None, todo |-> {}, names |-> {}]
Step(place, d, h) == [at |-> place, dev |-> d, host |-> h, todo |-> {}, names |-> {}]
Free == op.at = "idle"

\* Type invariant: the files, their copies in memory and the handler at work have their
\* declared shape.
TypeOK ==
  /\ inv \in SUBSET Row
  /\ bound \in [Hosts -> Device] /\ boundDisk \in [Hosts -> Device]
  /\ rec \in [Devices -> Record \cup {None}] /\ recDisk \in [Devices -> Record \cup {None}]
  /\ pol \in Policy /\ polDisk \in Policy
  /\ op \in Op
  /\ challenges \in SUBSET Devices /\ waiting \in SUBSET Devices
  /\ view \in (SUBSET Hosts) \cup {None}
  /\ stamp \in [Devices -> 0..MaxConfigs \cup {None}]
  /\ gone \in SUBSET Devices
  /\ faults \in Nat /\ crashes \in 0..MaxCrashes
  /\ configs \in 0..MaxConfigs /\ saves \in 0..MaxSaves

\* The state after the policy was first opened: it is closed when SERVER is installed.
Init ==
  /\ inv = {} /\ view = None
  /\ bound = [h \in Hosts |-> None] /\ boundDisk = bound
  /\ rec = [d \in Devices |-> None] /\ recDisk = rec
  /\ \E m \in Limits : pol = [open |-> TRUE, max |-> m, used |-> 0, epoch |-> 0]
  /\ polDisk = pol
  /\ op = Idle
  /\ challenges = {} /\ waiting = {}
  /\ stamp = [d \in Devices |-> None]
  /\ gone = {}
  /\ faults = 0 /\ crashes = 0 /\ configs = 0 /\ saves = 0

-------------------------------------------------------------------------------
(* Writes *)

\* How a write ends: done, or raised with the old file or the new one in place.
Outcomes == {"ok"} \cup (IF faults < MaxFaults THEN {"old", "new"} ELSE {})
File(o, old, new) == IF o = "old" THEN old ELSE new
\* The handler goes on after a write that is done; one that raises ends it.
GoOn(o, next) ==
  /\ op' = IF o = "ok" THEN next ELSE Idle
  /\ faults' = IF o = "ok" THEN faults ELSE faults + 1
  /\ UNCHANGED <<crashes, configs, saves>>

\* save: the cache changes after the write.  A record that was not cached is read again.
SaveRecord(d, r, o) ==
  /\ recDisk' = [recDisk EXCEPT ![d] = File(o, @, r)]
  /\ rec' = [rec EXCEPT ![d] = IF o = "ok" \/ (o = "new" /\ @ = None) THEN r ELSE @]

HostsOf(rows) == {w.host : w \in rows}
Known(d) == rec[d] # None
Barred(d) == Known(d) /\ (rec[d].revoked \/ rec[d].uninstalled)
MayEnroll == pol.open /\ pol.used < pol.max

-------------------------------------------------------------------------------
(* The device comes: hello and exchange *)

\* A challenge is given to a device that is known and not barred, or may enrol.
Hello(d) ==
  /\ Free
  /\ ~Known(d) => (\A h \in Hosts : bound[h] # d) /\ MayEnroll
  /\ ~Barred(d)
  /\ challenges' = challenges \cup {d}
  /\ UNCHANGED <<registry, policy, op, waiting, view, ghosts, bounds>>

NewRecord(h) ==
  [host |-> h, pending |-> TRUE, revoked |-> FALSE, removed |-> FALSE,
   uninstalled |-> FALSE, seen |-> TRUE]
Unused(h, d) == IF h \in HostsOf(inv) THEN Suffixed(h, d) ELSE h

\* "seen": the record's last_seen is the time of the latest request.  A new request ages it.
Aged(records, d) == [records EXCEPT ![d] = IF @ = None THEN None ELSE [@ EXCEPT !.seen = FALSE]]

\* A bug: the policy is looked at only when the challenge is given.
MutantExchange(d, n) ==
  /\ Free
  /\ d \in challenges
  /\ challenges' = challenges \ {d}
  /\ ~Barred(d)
  /\ \/ /\ ~Known(d)
        /\ Unused(Plain(n), d) \notin HostsOf(inv)
        /\ op' = Step("register", d, Unused(Plain(n), d))
        /\ UNCHANGED <<rec, recDisk>>
     \/ /\ Known(d)
        /\ op' = Step(IF rec[d].pending THEN "enlist" ELSE "answer", d, rec[d].host)
        /\ rec' = Aged(rec, d) /\ recDisk' = Aged(recDisk, d)
  /\ UNCHANGED <<inv, bound, boundDisk, policy, waiting, view, ghosts, bounds>>

\* A signed request, which takes the challenge: the start of exchange.
Exchange(d, n) ==
  /\ Free
  /\ d \in challenges
  /\ challenges' = challenges \ {d}
  /\ ~Barred(d)
  /\ \/ /\ ~Known(d)
        /\ MayEnroll
        /\ Unused(Plain(n), d) \notin HostsOf(inv)
        /\ op' = Step("register", d, Unused(Plain(n), d))
        /\ UNCHANGED <<rec, recDisk>>
     \/ /\ Known(d)
        /\ op' = Step(IF rec[d].pending THEN "enlist" ELSE "answer", d, rec[d].host)
        /\ rec' = Aged(rec, d) /\ recDisk' = Aged(recDisk, d)
  /\ UNCHANGED <<inv, bound, boundDisk, policy, waiting, view, ghosts, bounds>>

\* A request that is refused has used its challenge.
Deny(d, n) ==
  /\ Free
  /\ d \in challenges
  /\ \/ Barred(d)
     \/ ~Known(d) /\ (~MayEnroll \/ Unused(Plain(n), d) \in HostsOf(inv))
  /\ challenges' = challenges \ {d}
  /\ UNCHANGED <<registry, policy, op, waiting, view, ghosts, bounds>>

\* register: the record is saved as pending before anything else.
Register(o) ==
  /\ op.at = "register"
  /\ SaveRecord(op.dev, NewRecord(op.host), o)
  /\ GoOn(o, Step("enlist", op.dev, op.host))
  /\ UNCHANGED <<inv, bound, boundDisk, policy, challenges, waiting, view, ghosts>>

\* finish_registration: a row that is the device's already is taken up, ...
Mine(w) == w.agent = op.dev \/ bound[w.host] = op.dev
TakeUp(w) ==
  /\ op.at = "enlist"
  /\ w \in inv /\ Mine(w)
  /\ op' = Step("bind", op.dev, w.host)
  /\ UNCHANGED <<registry, policy, challenges, waiting, view, ghosts, bounds>>

\* A bug: the name of an interrupted registration is not looked up again.
MutantEnlist(o) ==
  /\ op.at = "enlist"
  /\ \A w \in inv : ~Mine(w)
  /\ inv' = File(o, inv, inv \cup {[host |-> op.host, agent |-> op.dev]})
  /\ GoOn(o, Step("bind", op.dev, op.host))
  /\ UNCHANGED <<bound, boundDisk, rec, recDisk, policy, challenges, waiting, view, ghosts>>

\* ... else one is added, under a name that is still unused, ...
Enlist(o) ==
  /\ op.at = "enlist"
  /\ \A w \in inv : ~Mine(w)
  /\ LET h == Unused(op.host, op.dev) IN
       /\ h \notin HostsOf(inv)
       /\ inv' = File(o, inv, inv \cup {[host |-> h, agent |-> op.dev]})
       /\ GoOn(o, Step("bind", op.dev, h))
  /\ UNCHANGED <<bound, boundDisk, rec, recDisk, policy, challenges, waiting, view, ghosts>>

\* ... which fails when even the longer name is taken, ...
Duplicate ==
  /\ op.at = "enlist"
  /\ \A w \in inv : ~Mine(w)
  /\ Unused(op.host, op.dev) \in HostsOf(inv)
  /\ op' = Idle
  /\ UNCHANGED <<registry, policy, challenges, waiting, view, ghosts, bounds>>

\* ... the name is bound, in memory before the write, ...
Bind(o) ==
  /\ op.at = "bind"
  /\ bound' = [bound EXCEPT ![op.host] = op.dev]
  /\ boundDisk' = File(o, boundDisk, bound')
  /\ GoOn(o, Step("count", op.dev, op.host))
  /\ UNCHANGED <<inv, rec, recDisk, policy, challenges, waiting, view, ghosts>>

\* A bug: the count is not saved before the record.
MutantCount(o) ==
  /\ op.at = "count"
  /\ pol' = [pol EXCEPT !.used = @ + 1]
  /\ stamp' = IF o = "ok" THEN [stamp EXCEPT ![op.dev] = pol.epoch] ELSE stamp
  /\ GoOn(o, Step("settle", op.dev, op.host))
  /\ UNCHANGED <<registry, polDisk, challenges, waiting, view, gone>>

\* ... the device is counted, ...
Count(o) ==
  /\ op.at = "count"
  /\ pol' = [pol EXCEPT !.used = @ + 1]
  /\ polDisk' = File(o, polDisk, pol')
  /\ stamp' = IF o = "ok" THEN [stamp EXCEPT ![op.dev] = pol.epoch] ELSE stamp
  /\ GoOn(o, Step("settle", op.dev, op.host))
  /\ UNCHANGED <<registry, challenges, waiting, view, gone>>

\* ... and the record no longer pending.
Settle(o) ==
  /\ op.at = "settle"
  /\ SaveRecord(op.dev, [rec[op.dev] EXCEPT !.host = op.host, !.pending = FALSE], o)
  /\ GoOn(o, Step("answer", op.dev, op.host))
  /\ UNCHANGED <<inv, bound, boundDisk, policy, challenges, waiting, view, ghosts>>

\* A device without a row is refused, ...
Refuse ==
  /\ op.at = "answer"
  /\ op.host \notin HostsOf(inv)
  /\ op' = Idle
  /\ UNCHANGED <<registry, policy, challenges, waiting, view, ghosts, bounds>>

\* ... one that reports a result, or that it is being uninstalled, is recorded as seen, ...
Answer(uninstall, o) ==
  /\ op.at = "answer"
  /\ op.host \in HostsOf(inv)
  /\ SaveRecord(op.dev, [rec[op.dev] EXCEPT !.seen = TRUE, !.uninstalled = uninstall], o)
  /\ GoOn(o, Idle)
  /\ UNCHANGED <<inv, bound, boundDisk, policy, challenges, waiting, view, ghosts>>

\* ... any other waits for a task and gives the lock up.
Wait ==
  /\ op.at = "answer"
  /\ op.host \in HostsOf(inv)
  /\ waiting' = waiting \cup {op.dev}
  /\ op' = Idle
  /\ UNCHANGED <<registry, policy, challenges, view, ghosts, bounds>>

\* A bug: the record that was read before the wait is saved.
MutantWake(d, o) ==
  /\ Free
  /\ d \in waiting
  /\ waiting' = waiting \ {d}
  /\ SaveRecord(d, [rec[d] EXCEPT !.revoked = FALSE, !.seen = TRUE], o)
  /\ faults' = IF o = "ok" THEN faults ELSE faults + 1
  /\ UNCHANGED <<inv, bound, boundDisk, policy, op, challenges, view, ghosts,
                 crashes, configs, saves>>

\* The wait ends.  The record is read again, and this record is the one that is saved.
Wake(d, o) ==
  /\ Free
  /\ d \in waiting
  /\ waiting' = waiting \ {d}
  /\ \/ /\ rec[d].revoked
        /\ o = "ok"
        /\ UNCHANGED <<rec, recDisk, faults>>
     \/ /\ ~rec[d].revoked
        /\ SaveRecord(d, rec[d], o)
        /\ faults' = IF o = "ok" THEN faults ELSE faults + 1
  /\ UNCHANGED <<inv, bound, boundDisk, policy, op, challenges, view, ghosts,
                 crashes, configs, saves>>

-------------------------------------------------------------------------------
(* Operators *)

\* revoke of a device that the GUI lists (listing leaves out those marked as removed), with or
\* without its removal from the list.
StartRevoke(d) ==
  /\ Free
  /\ Known(d) /\ ~rec[d].removed
  /\ op' = Step("revoke", d, rec[d].host)
  /\ UNCHANGED <<registry, policy, challenges, waiting, view, ghosts, bounds>>

Revoke(o) ==
  /\ op.at = "revoke"
  /\ SaveRecord(op.dev, [rec[op.dev] EXCEPT !.revoked = TRUE], o)
  /\ \E next \in {Idle, Step("remove", op.dev, op.host)} : GoOn(o, next)
  /\ UNCHANGED <<inv, bound, boundDisk, policy, challenges, waiting, view, ghosts>>

\* The record marked as removed is the cached one, whatever becomes of the write.
Remove(o) ==
  /\ op.at = "remove"
  /\ rec' = [rec EXCEPT ![op.dev].removed = TRUE]
  /\ recDisk' = [recDisk EXCEPT ![op.dev] = File(o, @, rec'[op.dev])]
  /\ GoOn(o, Step("unbind", op.dev, op.host))
  /\ UNCHANGED <<inv, bound, boundDisk, policy, challenges, waiting, view, ghosts>>

\* A bug: the binding is dropped in memory only.
MutantUnbind(o) ==
  /\ op.at = "unbind"
  /\ bound' = [bound EXCEPT ![op.host] = None]
  /\ GoOn(o, Step("unlist", op.dev, op.host))
  /\ UNCHANGED <<inv, boundDisk, rec, recDisk, policy, challenges, waiting, view, ghosts>>

\* The name no longer stands for the device, in memory before the write, ...
Unbind(o) ==
  /\ op.at = "unbind"
  /\ bound' = [bound EXCEPT ![op.host] = None]
  /\ boundDisk' = File(o, boundDisk, bound')
  /\ GoOn(o, Step("unlist", op.dev, op.host))
  /\ UNCHANGED <<inv, rec, recDisk, policy, challenges, waiting, view, ghosts>>

\* ... and its row goes.
Unlist(o) ==
  /\ op.at = "unlist"
  /\ inv' = File(o, inv, {w \in inv : w.host # op.host})
  /\ gone' = IF o = "ok" THEN gone \cup {op.dev} ELSE gone
  /\ GoOn(o, Idle)
  /\ UNCHANGED <<bound, boundDisk, rec, recDisk, policy, challenges, waiting, view,
                 stamp>>

\* The GUI reads the inventory.
GuiRead ==
  /\ Free
  /\ saves < MaxSaves
  /\ view' = HostsOf(inv)
  /\ UNCHANGED <<registry, policy, op, challenges, waiting, ghosts, bounds>>

BoundTo(names) == {bound[h] : h \in names} \ {None}

\* A bug: only devices whose row the GUI had shown are revoked.
MutantSaveInventory(keep, more) ==
  /\ Free
  /\ view # None /\ keep \subseteq view
  /\ saves < MaxSaves
  /\ op' = [at |-> "drop", dev |-> None, host |-> None, names |-> keep \cup more,
            todo |-> BoundTo(view \ (keep \cup more))]
  /\ view' = None
  /\ saves' = saves + 1
  /\ UNCHANGED <<registry, policy, challenges, waiting, ghosts, faults, crashes, configs>>

\* The operator's list is saved: rows kept of those the GUI had read, and new ones.  The GUI
\* reads again before the next edit.
SaveInventory(keep, more) ==
  /\ Free
  /\ view # None /\ keep \subseteq view
  /\ saves < MaxSaves
  /\ LET names == keep \cup more IN
       op' = [at |-> "drop", dev |-> None, host |-> None, todo |-> BoundTo(Hosts \ names),
              names |-> names]
  /\ view' = None
  /\ saves' = saves + 1
  /\ UNCHANGED <<registry, policy, challenges, waiting, ghosts,
                 faults, crashes, configs>>

\* Devices whose name is not in the list are revoked one by one, ...
Drop(d, o) ==
  /\ op.at = "drop"
  /\ d \in op.todo
  /\ SaveRecord(d, [rec[d] EXCEPT !.revoked = TRUE], o)
  /\ GoOn(o, [op EXCEPT !.todo = @ \ {d}])
  /\ UNCHANGED <<inv, bound, boundDisk, policy, challenges, waiting, view, ghosts>>

\* ... then the rows are written, without the identities (inventory_records).
WriteRows(o) ==
  /\ op.at = "drop"
  /\ op.todo = {}
  /\ inv' = File(o, inv, {[host |-> h, agent |-> None] : h \in op.names})
  /\ GoOn(o, Idle)
  /\ UNCHANGED <<bound, boundDisk, rec, recDisk, policy, challenges, waiting, view, ghosts>>

\* configure: a new policy starts counting at zero.
Configure(m, open, o) ==
  /\ Free
  /\ configs < MaxConfigs
  /\ LET p == [open |-> open, max |-> m, used |-> 0, epoch |-> configs + 1] IN
       /\ polDisk' = File(o, polDisk, p)
       /\ pol' = IF o = "ok" THEN p ELSE pol
  /\ configs' = configs + 1
  /\ faults' = IF o = "ok" THEN faults ELSE faults + 1
  /\ UNCHANGED <<registry, op, challenges, waiting, view, ghosts, crashes, saves>>

-------------------------------------------------------------------------------
(* Crashes *)

\* SERVER stops, also in the middle of a handler, and starts again from its files.
Crash ==
  /\ crashes < MaxCrashes
  /\ crashes' = crashes + 1
  /\ bound' = boundDisk
  /\ rec' = recDisk
  /\ pol' = polDisk
  /\ op' = Idle
  /\ challenges' = {} /\ waiting' = {}
  /\ UNCHANGED <<inv, boundDisk, recDisk, polDisk, view, ghosts, faults, configs, saves>>

Enrol(o) == Register(o) \/ Enlist(o) \/ Bind(o) \/ Count(o) \/ Settle(o)
            \/ \E uninstall \in BOOLEAN : Answer(uninstall, o)
Withdraw(o) == Revoke(o) \/ Remove(o) \/ Unbind(o) \/ Unlist(o) \/ WriteRows(o)

Next ==
  \/ \E d \in Devices : Hello(d)
  \/ \E d \in Devices, n \in Names : Exchange(d, n) \/ Deny(d, n)
  \/ \E w \in inv : TakeUp(w)
  \/ Duplicate \/ Refuse \/ Wait
  \/ \E o \in Outcomes :
       \/ Enrol(o) \/ Withdraw(o)
       \/ \E d \in Devices : Wake(d, o) \/ Drop(d, o)
       \/ \E m \in Limits, open \in BOOLEAN : Configure(m, open, o)
  \/ \E d \in Devices : StartRevoke(d)
  \/ GuiRead
  \/ \E keep \in SUBSET Hosts, more \in SUBSET {Plain(n) : n \in Names} : SaveInventory(keep, more)
  \/ Crash

Spec == Init /\ [][Next]_vars

-------------------------------------------------------------------------------
(* Properties *)

Finished(r) == r # None /\ ~r.pending
Admitted(d) == Finished(rec[d]) /\ ~rec[d].revoked /\ ~rec[d].uninstalled

\* No name stands for two machines: a registration that was interrupted looks again for an
\* unused name when it is taken up (finish_registration), since others may have taken it.
NamesUnique == \A v, w \in inv : v.host = w.host => v = w

\* Another device, with the record's name h, was marked as removed: its removal takes the row and
\* the binding of the name with it, whoever has them by then (revoke).
NameRemoved(d, h) == \E e \in Devices \ {d} : Known(e) /\ rec[e].removed /\ rec[e].host = h

\* A device that may connect has its row and its binding, over interrupted registrations and
\* inventories saved meanwhile, unless an older device of the same name was removed.
AdmittedAreListed ==
  \A d \in Devices : Free /\ Admitted(d) =>
    \/ rec[d].host \in HostsOf(inv) /\ bound[rec[d].host] = d
    \/ NameRemoved(d, rec[d].host)

\* Every device that completed its registration was counted against the limit of the policy
\* in force, also after a crash: the count is on disk before the record says so.
Counted(p, records) ==
  Cardinality({d \in Devices : Finished(records[d]) /\ stamp[d] = p.epoch}) <= p.used
EnrolmentCounted == Counted(pol, rec) /\ Counted(polDisk, recDisk)

\* The limit of new devices holds however many of them were given a challenge at once; what an
\* interruption leaves unfinished may exceed it by one.
LimitKept == pol.used <= pol.max + faults + crashes

\* What is registered is listed, bound and counted, within the limit.
RegistrationsHold == AdmittedAreListed /\ EnrolmentCounted /\ LimitKept

\* A device that was cut off in memory and on disk stays so: a request that was waiting when
\* the operator acted does not bring its record back.
CutOff(d) == Known(d) /\ rec[d].revoked /\ recDisk[d] # None /\ recDisk[d].revoked
CutOffForGood == [][\A d \in Devices : CutOff(d) => CutOff(d)']_vars

\* A removal that was reported as done leaves no row, no binding and nothing to restart from,
\* if the device had completed its registration: its record then has the name of its row.  An
\* older device that called itself the same and was removed may have separated the two.
RemovedIsGone ==
  \A d \in gone : Finished(rec[d]) =>
    \/ /\ \A h \in Hosts : bound[h] # d /\ boundDisk[h] # d
       /\ \A w \in inv : w.agent # d
    \/ NameRemoved(d, Plain(rec[d].host[1]))

\* What the documentation says the GUI shows of a device (windows-client-agent.md:64-66): the
\* time of its last contact, from which it is called connected for 120 seconds.
LastContactShown ==
  \A d \in Devices \ waiting : Free /\ Admitted(d) /\ rec[d].host \in HostsOf(inv) => rec[d].seen
===============================================================================

-------------------------------- MODULE Assets --------------------------------
(* The CI registry (ci/registry.py): one encrypted record per host with     *)
(* what was discovered on it and what operators typed in, a copy of it in   *)
(* memory, and those who write it under the lock of the service: jobs that  *)
(* collected over SSH, devices that report, operators who edit many hosts.  *)
EXTENDS Naturals, FiniteSets

CONSTANTS
  Hosts, Addresses,
  Agents,          \* hosts that report themselves, the others are collected
  MaxEdits, MaxMoves, MaxFaults,  \* bounds: edits, inventory changes, failed writes and crashes
  None

VARIABLES
  ip,              \* the inventory: address of a host, None if it is not listed
  disk, cache,     \* ci/<hash>.json.enc; CIRegistry.cache, None where not read yet
  job,             \* the row of a host in its collection job and where that is
  edits, moves, faults,
  acked,           \* ghost: the metadata of the last edit reported as updated
  doubt            \* ghost: those of later edits reported as failed, or not at all

vars == <<ip, disk, cache, job, edits, moves, faults, acked, doubt>>

(* An observation describes the machine that answered at an address.        *)
Record == [manual : 0..MaxEdits, status : {None, "completed", "failed"},
           observed : Addresses \cup {None}, observed_ip : Addresses \cup {None}]
Row == [ip : Addresses, at : {"queued", "connected", "failing"}]

TypeOK ==
  /\ ip \in [Hosts -> Addresses \cup {None}]
  /\ disk \in [Hosts -> Record] /\ cache \in [Hosts -> Record \cup {None}]
  /\ job \in [Hosts -> Row \cup {None}]
  /\ edits \in 0..MaxEdits /\ moves \in 0..MaxMoves /\ faults \in 0..MaxFaults
  /\ acked \in [Hosts -> 0..MaxEdits] /\ doubt \in [Hosts -> SUBSET (1..MaxEdits)]

(* Assumption: what the constants may be.                                   *)
SettingOK ==
  /\ MaxEdits \in Nat /\ MaxMoves \in Nat /\ MaxFaults \in Nat /\ IsFiniteSet(Hosts)
  /\ None \notin Addresses /\ None \notin Record /\ None \notin Row

Init ==
  /\ ip \in [Hosts -> Addresses]
  /\ disk = [h \in Hosts |-> [manual |-> 0, status |-> None, observed |-> None, observed_ip |-> None]]
  /\ cache = [h \in Hosts |-> None] /\ job = [h \in Hosts |-> None]
  /\ edits = 0 /\ moves = 0 /\ faults = 0
  /\ acked = [h \in Hosts |-> 0] /\ doubt = [h \in Hosts |-> {}]

-------------------------------------------------------------------------------
(* get: from memory if it was read before.                                  *)
Get(h) == IF cache[h] = None THEN disk[h] ELSE cache[h]

(* write_json can fail before its rename, and after it when the directory   *)
(* cannot be synchronised: then the new record is on disk all the same.     *)
Writes == {"done", "failed", "late"}
OnDisk(how) == how \in {"done", "late"}

(* save: memory follows the disk, and only a write that succeeded.          *)
Save(h, v, how) ==
  /\ disk' = IF OnDisk(how) THEN [disk EXCEPT ![h] = v] ELSE disk
  /\ cache' = [cache EXCEPT ![h] = IF how = "done" THEN v ELSE Get(h)]
  /\ faults' = faults + (IF how = "done" THEN 0 ELSE 1) /\ faults' <= MaxFaults

(* observe: a success replaces the observation, an error keeps it; what was *)
(* typed in stays either way.                                               *)
Seen(h, where, what) ==
  [Get(h) EXCEPT !.status = "completed", !.observed = what, !.observed_ip = where]
MutantUnseen(h) == [Get(h) EXCEPT !.status = "failed", !.manual = 0]
Unseen(h) == [Get(h) EXCEPT !.status = "failed"]

-------------------------------------------------------------------------------
(* A collection job takes a copy of the row, connects only if the address   *)
(* is still the one of the row, and reports under the lock.                 *)
Submit(h) ==
  /\ h \notin Agents /\ ip[h] # None /\ job[h] = None
  /\ job' = [job EXCEPT ![h] = [ip |-> ip[h], at |-> "queued"]]
  /\ UNCHANGED <<ip, disk, cache, edits, moves, faults, acked, doubt>>

Connect(h) ==
  /\ job[h] # None /\ job[h].at = "queued"
  /\ \E at \in {"failing"} \cup (IF ip[h] = job[h].ip THEN {"connected"} ELSE {}) :
       job' = [job EXCEPT ![h].at = at]
  /\ UNCHANGED <<ip, disk, cache, edits, moves, faults, acked, doubt>>

MutantPlace(h) == IF ip[h] = None THEN job[h].ip ELSE ip[h]
Place(h) == job[h].ip

(* A record that cannot be saved is a failure of the collection too.        *)
Collected(h) ==
  /\ job[h] # None /\ job[h].at = "connected"
  /\ \/ \E how \in Writes :
          /\ Save(h, Seen(h, Place(h), job[h].ip), how)
          /\ job' = [job EXCEPT ![h] = IF how = "done" THEN None ELSE [@ EXCEPT !.at = "failing"]]
     \/ job' = [job EXCEPT ![h].at = "failing"] /\ UNCHANGED <<disk, cache, faults>>
  /\ UNCHANGED <<ip, edits, moves, acked, doubt>>

NotCollected(h) ==
  /\ job[h] # None /\ job[h].at = "failing"
  /\ \E how \in Writes : Save(h, Unseen(h), how)
  /\ job' = [job EXCEPT ![h] = None]
  /\ UNCHANGED <<ip, edits, moves, acked, doubt>>

(* The exchange of a device: the inventory follows the address it has, then *)
(* the observation is saved; or it says that it could not collect.          *)
Report(h) ==
  /\ h \in Agents /\ ip[h] # None
  /\ \/ \E a \in Addresses, how \in Writes :
          /\ a = ip[h] \/ moves < MaxMoves
          /\ ip' = [ip EXCEPT ![h] = a] /\ moves' = moves + (IF a = ip[h] THEN 0 ELSE 1)
          /\ Save(h, Seen(h, a, a), how)
     \/ \E how \in Writes : Save(h, Unseen(h), how) /\ UNCHANGED <<ip, moves>>
  /\ UNCHANGED <<job, edits, acked, doubt>>

ReportRefused(h) ==
  /\ h \in Agents /\ ip[h] # None /\ faults < MaxFaults /\ faults' = faults + 1
  /\ \/ UNCHANGED <<ip, moves>>
     \/ \E a \in Addresses \ {ip[h]} :
          ip' = [ip EXCEPT ![h] = a] /\ moves < MaxMoves /\ moves' = moves + 1
  /\ UNCHANGED <<disk, cache, job, edits, acked, doubt>>

-------------------------------------------------------------------------------
(* update: host after host; one that cannot be saved is reported as failed  *)
(* and the others go on.                                                    *)
Typed(h) == [Get(h) EXCEPT !.manual = edits + 1]

Update(chosen) ==
  /\ chosen # {} /\ (\A h \in chosen : ip[h] # None) /\ edits < MaxEdits /\ edits' = edits + 1
  /\ \E how \in [chosen -> Writes] :
       /\ disk' = [h \in Hosts |-> IF h \in chosen /\ OnDisk(how[h]) THEN Typed(h) ELSE disk[h]]
       /\ cache' = [h \in Hosts |-> IF h \notin chosen THEN cache[h]
                                    ELSE IF how[h] = "done" THEN Typed(h) ELSE Get(h)]
       /\ faults' = faults + Cardinality({h \in chosen : how[h] # "done"}) /\ faults' <= MaxFaults
       /\ acked' = [h \in Hosts |-> IF h \in chosen /\ how[h] = "done" THEN edits + 1 ELSE acked[h]]
       /\ doubt' = [h \in Hosts |-> IF h \notin chosen THEN doubt[h]
                                    ELSE IF how[h] = "done" THEN {} ELSE doubt[h] \cup {edits + 1}]
  /\ UNCHANGED <<ip, job, moves>>

(* SERVER is killed, perhaps while it is at the hosts of an edit.           *)
Crash ==
  /\ faults < MaxFaults /\ faults' = faults + 1
  /\ cache' = [h \in Hosts |-> None] /\ job' = [h \in Hosts |-> None]
  /\ \/ UNCHANGED <<disk, edits, doubt>>
     \/ /\ edits < MaxEdits /\ edits' = edits + 1
        /\ \E written \in SUBSET {h \in Hosts : ip[h] # None} :
             /\ disk' = [h \in Hosts |-> IF h \in written THEN Typed(h) ELSE disk[h]]
             /\ doubt' = [h \in Hosts |-> IF h \in written THEN doubt[h] \cup {edits + 1} ELSE doubt[h]]
  /\ UNCHANGED <<ip, moves, acked>>

SaveInventory(h) ==
  /\ moves < MaxMoves /\ moves' = moves + 1
  /\ \E a \in Addresses \cup {None} : a # ip[h] /\ ip' = [ip EXCEPT ![h] = a]
  /\ UNCHANGED <<disk, cache, job, edits, faults, acked, doubt>>

Next ==
  \/ \E h \in Hosts : Submit(h) \/ Connect(h) \/ Collected(h) \/ NotCollected(h)
  \/ \E h \in Hosts : Report(h) \/ ReportRefused(h) \/ SaveInventory(h)
  \/ \E chosen \in SUBSET Hosts : Update(chosen)
  \/ Crash

Spec == Init /\ [][Next]_vars

-------------------------------------------------------------------------------
(* Properties *)

(* What listing shows of a host.                                            *)
Stale(h) == Get(h).observed_ip # None /\ Get(h).observed_ip # ip[h]

(* "Manual metadata survives discovery failures" (ci/registry.py:1), and    *)
(* successes, failed writes and restarts: it is what the last edit that was *)
(* reported as updated wrote, or a later one that was reported as failed.   *)
ManualSurvives(h) == {Get(h).manual, disk[h].manual} \subseteq {acked[h]} \cup doubt[h]

(* A record of another machine is never shown as that of the listed host:   *)
(* after a change of address it is marked until it is collected again.      *)
StaleIsShown(h) == Get(h).observed \notin {None, ip[h]} => Stale(h)

RecordsHold == \A h \in Hosts : ManualSurvives(h) /\ (ip[h] # None => StaleIsShown(h))
===============================================================================

-------------------------------- MODULE Targets -------------------------------
(* The worker thread of each target of a job: _spread_target, _target,      *)
(* _target_inner and _target_unlocked of server/service.py, and the device  *)
(* backups of server/agents.py.  A target waits for its turn, an SSH slot,  *)
(* the lock of its address and the single backup slot, in an order that     *)
(* depends on the kind of its job; a change is made after a complete backup *)
(* and a last look at the cancellation of the job.                          *)
EXTENDS Naturals, FiniteSets

CONSTANTS
  Targets, Jobs, Addresses,
  JobOf, AddressOf,     \* of a target
  Devices,              \* targets reached through the agent of a Windows CLIENT
  Slots,                \* ssh_slots (max_workers)
  MaxMoves,             \* bound: addresses that change in the inventory
  None

(* "read": connections, monitoring, audits, plans, lists, CI; "backup" and  *)
(* "compare"; "direct": commands, transfers, SERVER's key; "change": accounts, *)
(* patches, SSH settings and permissions.                                   *)
Kinds == {"read", "backup", "compare", "direct", "change"}

(* Assumption: what the constants may be.                                   *)
SettingOK ==
  /\ JobOf \in [Targets -> Jobs] /\ AddressOf \in [Targets -> Addresses]
  /\ IsFiniteSet(Targets) /\ Devices \subseteq Targets
  /\ None \notin Targets
  /\ Slots \in Nat \ {0} /\ MaxMoves \in Nat

VARIABLES
  kind,          \* class of the kind of a job
  at,            \* where the thread of a target is
  outcome,       \* status of its result
  cancelled,     \* jobs with cancel_requested
  slots,         \* free ssh_slots
  heavy,         \* holder of heavy_slots
  locks,         \* account_locks: holder of the lock of an address
  moved,         \* targets whose host has another address in the inventory now
  version,       \* ghost: changes SERVER made at an address
  saved,         \* ghost: the version in a target's complete backup
  early          \* ghost: targets cancelled before they were connected

vars == <<kind, at, outcome, cancelled, slots, heavy, locks, moved, version, saved, early>>

Places == {"waiting", "slotted", "locked", "cleared", "backup", "saving", "confirm",
           "work", "over"}
Outcomes == {"none", "completed", "failed", "cancelled"}

KindOf(t) == kind[JobOf[t]]
Exclusive(t) == t \notin Devices /\ KindOf(t) \in {"direct", "change"}
Busy(t) == Exclusive(t) /\ at[t] \in {"locked", "cleared", "backup", "saving", "confirm", "work"}
HasSlot(t) == t \notin Devices /\ at[t] \notin {"waiting", "over"}

TypeOK ==
  /\ kind \in [Jobs -> Kinds]
  /\ at \in [Targets -> Places] /\ outcome \in [Targets -> Outcomes]
  /\ cancelled \subseteq Jobs /\ slots \in 0..Slots
  /\ heavy \in Targets \cup {None} /\ locks \in [Addresses -> Targets \cup {None}]
  /\ moved \subseteq Targets /\ early \subseteq Targets
  /\ version \in [Addresses -> Nat] /\ saved \in [Targets -> Nat \cup {None}]

Init ==
  /\ kind \in [Jobs -> Kinds]
  /\ at = [t \in Targets |-> "waiting"] /\ outcome = [t \in Targets |-> "none"]
  /\ cancelled = {} /\ slots = Slots /\ heavy = None /\ locks = [a \in Addresses |-> None]
  /\ moved = {} /\ version = [a \in Addresses |-> 0] /\ saved = [t \in Targets |-> None]
  /\ early = {}

-------------------------------------------------------------------------------
Go(t, place) == at' = [at EXCEPT ![t] = place]

(* The end of a target: every "with" gives back what the thread holds.      *)
MutantLeave(t, result) ==
  /\ Go(t, "over")
  /\ outcome' = [outcome EXCEPT ![t] = result]
  /\ slots' = slots + 1
  /\ heavy' = IF heavy = t THEN None ELSE heavy
  /\ locks' = [a \in Addresses |-> IF locks[a] = t THEN None ELSE locks[a]]

Leave(t, result) ==
  /\ Go(t, "over")
  /\ outcome' = [outcome EXCEPT ![t] = result]
  /\ slots' = IF HasSlot(t) THEN slots + 1 ELSE slots
  /\ heavy' = IF heavy = t THEN None ELSE heavy
  /\ locks' = [a \in Addresses |-> IF locks[a] = t THEN None ELSE locks[a]]

(* job.cancel, at any time.                                                 *)
Cancel(j) ==
  /\ j \notin cancelled
  /\ cancelled' = cancelled \cup {j}
  /\ early' = early \cup {t \in Targets : JobOf[t] = j /\ at[t] \in {"waiting", "slotted", "locked"}}
  /\ UNCHANGED <<kind, at, outcome, slots, heavy, locks, moved, version, saved>>

(* save_inventory gives the host of a target another address.               *)
Move(t) ==
  /\ t \notin moved /\ Cardinality(moved) < MaxMoves
  /\ moved' = moved \cup {t}
  /\ UNCHANGED <<kind, at, outcome, cancelled, slots, heavy, locks, version, saved, early>>

(* While its turn of a spread job has not come a target looks for the       *)
(* cancellation of its job.                                                 *)
GiveUp(t) ==
  /\ at[t] = "waiting" /\ JobOf[t] \in cancelled
  /\ Leave(t, "cancelled")
  /\ UNCHANGED <<kind, cancelled, moved, version, saved, early>>

TakeSlot(t) ==
  /\ at[t] = "waiting" /\ t \notin Devices
  /\ slots > 0
  /\ slots' = slots - 1 /\ Go(t, "slotted")
  /\ UNCHANGED <<kind, outcome, cancelled, heavy, locks, moved, version, saved, early>>

(* A comparison takes the backup slot, an operation that may change the     *)
(* host the lock of its address, anything else nothing more.                *)
MutantEnter(t) ==
  /\ at[t] = "slotted"
  /\ Go(t, "locked")
  /\ IF KindOf(t) = "compare" THEN heavy = None /\ heavy' = t ELSE heavy' = heavy
  /\ IF Exclusive(t) /\ KindOf(t) = "direct"
     THEN /\ locks[AddressOf[t]] = None
          /\ locks' = [locks EXCEPT ![AddressOf[t]] = t]
     ELSE locks' = locks
  /\ UNCHANGED <<kind, outcome, cancelled, slots, moved, version, saved, early>>

Enter(t) ==
  /\ at[t] = "slotted"
  /\ Go(t, "locked")
  /\ IF KindOf(t) = "compare" THEN heavy = None /\ heavy' = t ELSE heavy' = heavy
  /\ IF Exclusive(t)
     THEN /\ locks[AddressOf[t]] = None
          /\ locks' = [locks EXCEPT ![AddressOf[t]] = t]
     ELSE locks' = locks
  /\ UNCHANGED <<kind, outcome, cancelled, slots, moved, version, saved, early>>

(* The first look at the cancellation, under the locks.                     *)
MutantCheck(t) ==
  /\ at[t] = "locked"
  /\ Go(t, "cleared")
  /\ UNCHANGED <<kind, outcome, cancelled, slots, heavy, locks, moved, version, saved, early>>

Check(t) ==
  /\ at[t] = "locked"
  /\ IF JobOf[t] \in cancelled
     THEN Leave(t, "cancelled")
     ELSE Go(t, "cleared") /\ UNCHANGED <<outcome, slots, heavy, locks>>
  /\ UNCHANGED <<kind, cancelled, moved, version, saved, early>>

(* The connection: the profile, the address and, for a reviewed plan, the   *)
(* observations are compared first; any of it may raise, and there may be   *)
(* nothing to change (a satisfied policy, a query of Windows or AIX).       *)
MutantConnect(t) ==
  /\ at[t] = "cleared"
  /\ \/ Leave(t, "failed")
     \/ KindOf(t) = "change" /\ t \notin moved /\ Leave(t, "completed")
     \/ /\ t \notin moved
        /\ Go(t, IF KindOf(t) \in {"backup", "compare", "change"} THEN "backup" ELSE "work")
        /\ UNCHANGED <<outcome, slots, heavy, locks>>
  /\ UNCHANGED <<kind, cancelled, moved, version, saved, early>>

Connect(t) ==
  /\ at[t] = "cleared"
  /\ \/ Leave(t, "failed")
     \/ KindOf(t) = "change" /\ t \notin moved /\ Leave(t, "completed")
     \/ /\ t \notin moved
        /\ Go(t, IF KindOf(t) \in {"backup", "change"} THEN "backup" ELSE "work")
        /\ UNCHANGED <<outcome, slots, heavy, locks>>
  /\ UNCHANGED <<kind, cancelled, moved, version, saved, early>>

(* An agent's backup takes the backup slot alone; its artifacts and every   *)
(* other operation are tasks of the device, each with a deadline.           *)
StartAgent(t) ==
  /\ at[t] = "waiting" /\ t \in Devices
  /\ IF KindOf(t) \in {"backup", "compare"} THEN heavy = None /\ heavy' = t ELSE heavy' = heavy
  /\ Go(t, "work")
  /\ UNCHANGED <<kind, outcome, cancelled, slots, locks, moved, version, saved, early>>

(* _backup: the backup slot is taken while slot and lock are held.          *)
StartBackup(t) ==
  /\ at[t] = "backup" /\ heavy = None
  /\ heavy' = t /\ Go(t, "saving")
  /\ UNCHANGED <<kind, outcome, cancelled, slots, locks, moved, version, saved, early>>

(* backup_server is complete only if every artifact is; a partial backup    *)
(* ends a change as a failure does, and it may also raise.                  *)
MutantEndBackup(t) ==
  /\ at[t] = "saving"
  /\ heavy' = None /\ Go(t, "confirm")
  /\ \/ saved' = [saved EXCEPT ![t] = version[AddressOf[t]]]
     \/ saved' = saved
  /\ UNCHANGED <<kind, outcome, cancelled, slots, locks, moved, version, early>>

EndBackup(t) ==
  /\ at[t] = "saving"
  /\ \/ /\ KindOf(t) = "change"
        /\ heavy' = None /\ Go(t, "confirm")
        /\ saved' = [saved EXCEPT ![t] = version[AddressOf[t]]]
        /\ UNCHANGED <<outcome, slots, locks>>
     \/ /\ KindOf(t) = "backup"
        /\ Leave(t, "completed")
        /\ saved' = [saved EXCEPT ![t] = version[AddressOf[t]]]
     \/ Leave(t, "failed") /\ UNCHANGED saved
  /\ UNCHANGED <<kind, cancelled, moved, version, early>>

(* The second look, between backup and change.                              *)
Confirm(t) ==
  /\ at[t] = "confirm"
  /\ IF JobOf[t] \in cancelled
     THEN Leave(t, "cancelled")
     ELSE Go(t, "work") /\ UNCHANGED <<outcome, slots, heavy, locks>>
  /\ UNCHANGED <<kind, cancelled, moved, version, saved, early>>

(* The operation itself; one that may change the host may do so also when   *)
(* it fails, and a device may withdraw a cancelled task.                    *)
Work(t) ==
  /\ at[t] = "work"
  /\ \/ Leave(t, "completed")
     \/ Leave(t, "failed")
     \/ t \in Devices /\ JobOf[t] \in cancelled /\ Leave(t, "cancelled")
  /\ version' = IF Exclusive(t) THEN [version EXCEPT ![AddressOf[t]] = @ + 1] ELSE version
  /\ UNCHANGED <<kind, cancelled, moved, saved, early>>

Step(t) ==
  \/ GiveUp(t) \/ TakeSlot(t) \/ Enter(t) \/ Check(t) \/ Connect(t) \/ StartAgent(t)
  \/ StartBackup(t) \/ EndBackup(t) \/ Confirm(t) \/ Work(t)

AllOver == \A t \in Targets : at[t] = "over"

Next ==
  \/ \E j \in Jobs : Cancel(j)
  \/ \E t \in Targets : Move(t) \/ Step(t)
  \/ AllOver /\ UNCHANGED vars

Spec == Init /\ [][Next]_vars

(* Threads run, and whatever a thread does on a host ends: every SSH        *)
(* command and every task of a device has a deadline.                       *)
Progress == \A t \in Targets : WF_vars(Step(t))
FairSpec == Spec /\ Progress

-------------------------------------------------------------------------------
(* Properties *)

(* Changes of one host are serialised: two operations that may change it    *)
(* are never between their first look at it and their end at the same time. *)
(* (account_locks, service.py:401-412)                                      *)
OneChangeAtATime ==
  \A t, u \in Targets : t # u /\ AddressOf[t] = AddressOf[u] => ~(Busy(t) /\ Busy(u))

(* A change starts from what its own complete backup holds: SERVER changed  *)
(* nothing at that address since ("Pre-change backup incomplete; account    *)
(* unchanged", service.py:520-565).                                         *)
BackupIsCurrent ==
  \A t \in Targets :
    Exclusive(t) /\ KindOf(t) = "change" /\ at[t] \in {"confirm", "work"} => saved[t] = version[AddressOf[t]]

(* Why: who may change a host holds the lock of its address, who saves a    *)
(* backup holds the backup slot, and every SSH slot in use has a holder.    *)
LocksHeld == \A t \in Targets : Busy(t) => locks[AddressOf[t]] = t
BackupHeld == \A t \in Targets : at[t] = "saving" => heavy = t
SlotsHeld == slots + Cardinality({t \in Targets : HasSlot(t)}) = Slots
EarlyKnown == \A t \in early : JobOf[t] \in cancelled

(* Together: what is changed on a host is changed by one, from a backup.    *)
ChangesAreSafe == OneChangeAtATime /\ BackupIsCurrent

(* A target whose job was cancelled before it was connected is never        *)
(* connected, whatever it had to wait for in between.                       *)
CancelledInTime ==
  \A t \in early : t \notin Devices =>
    /\ at[t] \notin {"cleared", "backup", "saving", "confirm", "work"}
    /\ at[t] = "over" => outcome[t] = "cancelled"

TargetsInv ==
  /\ TypeOK /\ LocksHeld /\ BackupHeld /\ SlotsHeld /\ EarlyKnown
  /\ BackupIsCurrent /\ CancelledInTime

(* Slots, locks and the backup slot never make targets wait for each other  *)
(* for ever: every target of a job ends.                                    *)
EveryTargetEnds == \A t \in Targets : <>(at[t] = "over")
===============================================================================

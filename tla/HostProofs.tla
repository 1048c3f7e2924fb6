------------------------------ MODULE HostProofs ------------------------------
(* What is proved of the components that act on a host: targets, accounts,  *)
(* patches, commands and host keys.  The invariant of each is inductive,    *)
(* and the steps of the other scenarios do not touch its state.             *)
EXTENDS Operations, FiniteSetTheorems, SequenceTheorems, TLAPS

-------------------------------------------------------------------------------
(* Targets                                                                  *)

(* What the component counts is what the library's theorems are about.      *)
LEMMA TargetsFinite == \A S : T!IsFiniteSet(S) <=> IsFiniteSet(S)
BY DEF T!IsFiniteSet, IsFiniteSet

LEMMA TargetsCount == \A S : T!Cardinality(S) = Cardinality(S)
BY DEF T!Cardinality, Cardinality, T!IsFiniteSet, IsFiniteSet

LEMMA TargetsSetting ==
  /\ JobOf \in [Targets -> Jobs] /\ AddressOf \in [Targets -> Addresses]
  /\ IsFiniteSet(Targets) /\ Devices \subseteq Targets
  /\ None \notin Targets
  /\ Slots \in Nat \ {0} /\ MaxMoves \in Nat
BY SettingsOK, TargetsFinite DEF T!SettingOK

(* SSH slots *)

Holders == {t \in Targets : T!HasSlot(t)}

LEMMA TargetsHoldersFinite == IsFiniteSet(Holders) /\ Cardinality(Holders) \in Nat
BY TargetsSetting, FS_Subset, FS_CardinalityType DEF Holders

(* A slot is taken by one that had none.                                    *)
LEMMA TargetsSlotTaken ==
  ASSUME T!TypeOK, T!SlotsHeld, NEW t \in Targets, t \notin Devices, at[t] = "waiting",
         slots > 0, slots' = slots - 1, T!Go(t, "slotted")
  PROVE  T!SlotsHeld' /\ slots' \in 0..Slots
<1>1. t \notin Holders /\ Holders' = Holders \cup {t}
  BY DEF Holders, T!HasSlot, T!Go, T!TypeOK, T!Places
<1>2. Cardinality(Holders') = Cardinality(Holders) + 1
  BY <1>1, TargetsHoldersFinite, FS_AddElement
<1>. QED
  BY TargetsCount, <1>2, TargetsHoldersFinite, TargetsSetting DEF T!SlotsHeld, Holders, T!TypeOK

(* A step of a target between taking its slot and giving it back.           *)
LEMMA TargetsSlotKept ==
  ASSUME T!TypeOK, T!SlotsHeld, NEW t \in Targets, NEW p \in T!Places \ {"waiting", "over"},
         t \in Devices \/ at[t] \notin {"waiting", "over"}, T!Go(t, p), slots' = slots
  PROVE  T!SlotsHeld' /\ slots' \in 0..Slots
<1>1. Holders' = Holders
  BY DEF Holders, T!HasSlot, T!Go, T!TypeOK
<1>. QED  BY <1>1 DEF T!SlotsHeld, Holders, T!TypeOK

(* At its end a target gives its slot back, if it had one.                  *)
LEMMA TargetsSlotReturned ==
  ASSUME T!TypeOK, T!SlotsHeld, NEW t \in Targets, NEW r, T!Leave(t, r)
  PROVE  T!SlotsHeld' /\ slots' \in 0..Slots
<1>0. slots \in 0..Slots /\ slots + Cardinality(Holders) = Slots
  BY TargetsCount DEF T!SlotsHeld, Holders, T!TypeOK
<1>1. CASE T!HasSlot(t)
  <2>1. t \in Holders /\ Holders' = Holders \ {t} /\ slots' = slots + 1
    BY <1>1 DEF Holders, T!HasSlot, T!Go, T!Leave, T!TypeOK
  <2>2. Cardinality(Holders') = Cardinality(Holders) - 1 /\ Cardinality(Holders') \in Nat
    BY <2>1, TargetsHoldersFinite, FS_RemoveElement, FS_CardinalityType
  <2>. QED
    BY TargetsCount, <1>0, <2>1, <2>2, TargetsHoldersFinite, TargetsSetting DEF T!SlotsHeld, Holders
<1>2. CASE ~T!HasSlot(t)
  <2>1. Holders' = Holders /\ slots' = slots
    BY <1>2 DEF Holders, T!HasSlot, T!Go, T!Leave, T!TypeOK
  <2>. QED  BY <1>0, <2>1 DEF T!SlotsHeld, Holders
<1>. QED  BY <1>1, <1>2

(* Steps *)

LEMMA TargetsInit == T!Init => T!TargetsInv
<1>. SUFFICES ASSUME T!Init PROVE T!TargetsInv
  OBVIOUS
<1>1. T!TypeOK
  BY TargetsSetting DEF T!Init, T!TypeOK, T!Places, T!Outcomes
<1>2. T!LocksHeld /\ T!BackupHeld /\ T!EarlyKnown /\ T!BackupIsCurrent /\ T!CancelledInTime
  BY DEF T!Init, T!LocksHeld, T!Busy, T!BackupHeld, T!EarlyKnown, T!BackupIsCurrent,
     T!CancelledInTime
<1>3. T!SlotsHeld
  <2>1. {t \in Targets : T!HasSlot(t)} = {}
    BY DEF T!Init, T!HasSlot
  <2>2. T!Cardinality({t \in Targets : T!HasSlot(t)}) = 0
    BY <2>1, TargetsCount, FS_EmptySet
  <2>. QED  BY <2>2, TargetsSetting DEF T!Init, T!SlotsHeld
<1>. QED  BY <1>1, <1>2, <1>3 DEF T!TargetsInv

(* The end of a target keeps the invariant, if one that was cancelled early *)
(* ends as cancelled and one that changed the host held its lock.           *)
LEMMA TargetsLeaveKeeps ==
  ASSUME T!TargetsInv, NEW t \in Targets, NEW r \in T!Outcomes, T!Leave(t, r),
         UNCHANGED <<kind, cancelled, moved, early>>,
         t \in early /\ t \notin Devices => r = "cancelled",
         saved' \in [Targets -> Nat \cup {None}],
         \A u \in Targets \ {t} : saved'[u] = saved[u],
         \/ version' = version
         \/ T!Busy(t) /\ version' = [version EXCEPT ![AddressOf[t]] = @ + 1]
  PROVE  T!TargetsInv'
<1>. USE TargetsSetting
<1>0. /\ T!TypeOK /\ T!LocksHeld /\ T!BackupHeld /\ T!SlotsHeld /\ T!EarlyKnown
      /\ T!BackupIsCurrent /\ T!CancelledInTime
  BY DEF T!TargetsInv
<1>1. /\ at' = [at EXCEPT ![t] = "over"] /\ outcome' = [outcome EXCEPT ![t] = r]
      /\ heavy' = IF heavy = t THEN None ELSE heavy
      /\ locks' = [a \in Addresses |-> IF locks[a] = t THEN None ELSE locks[a]]
  BY DEF T!Leave, T!Go
<1>2. T!SlotsHeld' /\ slots' \in 0..Slots
  BY <1>0, TargetsSlotReturned
<1>3. T!TypeOK'
  BY <1>0, <1>1, <1>2 DEF T!TypeOK, T!Places, T!Outcomes
<1>4. ASSUME NEW u \in Targets, T!Busy(u)'
      PROVE  u # t /\ T!Busy(u)
  BY <1>0, <1>1, <1>4 DEF T!Busy, T!Exclusive, T!KindOf, T!TypeOK
<1>5. T!LocksHeld'
  BY <1>0, <1>1, <1>4 DEF T!LocksHeld, T!TypeOK
<1>6. T!BackupHeld'
  BY <1>0, <1>1 DEF T!BackupHeld, T!TypeOK
<1>7. T!EarlyKnown'
  BY <1>0 DEF T!EarlyKnown
<1>8. T!BackupIsCurrent'
  <2>. SUFFICES ASSUME NEW u \in Targets, T!Exclusive(u)', T!KindOf(u)' = "change",
                       at'[u] \in {"confirm", "work"}
                PROVE  saved'[u] = version'[AddressOf[u]]
    BY DEF T!BackupIsCurrent
  <2>1. u # t /\ T!Busy(u) /\ T!Busy(u)'
    BY <1>4 DEF T!Busy
  <2>2. T!Exclusive(u) /\ T!KindOf(u) = "change" /\ at[u] \in {"confirm", "work"}
    BY <1>0, <1>1, <2>1 DEF T!Exclusive, T!KindOf, T!TypeOK
  <2>3. saved'[u] = saved[u] /\ saved[u] = version[AddressOf[u]]
    BY <1>0, <2>1, <2>2 DEF T!BackupIsCurrent
  <2>4. version'[AddressOf[u]] = version[AddressOf[u]]
    BY <1>0, <2>1 DEF T!LocksHeld, T!TypeOK
  <2>. QED  BY <2>3, <2>4
<1>9. T!CancelledInTime'
  BY <1>0, <1>1 DEF T!CancelledInTime, T!TypeOK
<1>. QED  BY <1>2, <1>3, <1>5, <1>6, <1>7, <1>8, <1>9 DEF T!TargetsInv

(* A target on its way keeps the invariant, if it holds what its new place  *)
(* asks for and takes nothing from another.                                 *)
LEMMA TargetsGoKeeps ==
  ASSUME T!TargetsInv, NEW t \in Targets, NEW p \in T!Places \ {"waiting", "over"},
           T!Go(t, p),
         UNCHANGED <<kind, outcome, cancelled, moved, version, early>>,
         T!SlotsHeld', slots' \in 0..Slots,
         heavy' \in Targets \cup {None}, locks' \in [Addresses -> Targets \cup {None}],
         saved' \in [Targets -> Nat \cup {None}],
         \A u \in Targets \ {t} :
           /\ locks[AddressOf[u]] = u => locks'[AddressOf[u]] = u
           /\ at[u] = "saving" => heavy' = u
           /\ saved'[u] = saved[u],
         T!Exclusive(t) /\ p # "slotted" => locks'[AddressOf[t]] = t,
         p = "saving" => heavy' = t,
         T!Exclusive(t) /\ T!KindOf(t) = "change" /\ p \in {"confirm", "work"}
           => saved'[t] = version[AddressOf[t]],
         t \in early /\ t \notin Devices => p \in {"slotted", "locked"}
  PROVE  T!TargetsInv'
<1>. USE TargetsSetting
<1>0. /\ T!TypeOK /\ T!LocksHeld /\ T!BackupHeld /\ T!SlotsHeld /\ T!EarlyKnown
      /\ T!BackupIsCurrent /\ T!CancelledInTime
  BY DEF T!TargetsInv
<1>1. at' = [at EXCEPT ![t] = p] /\ \A u \in Targets : T!Exclusive(u)' = T!Exclusive(u)
  BY DEF T!Go, T!Exclusive, T!KindOf
<1>2. T!TypeOK'
  BY <1>0, <1>1 DEF T!TypeOK
<1>3. T!LocksHeld'
  <2>. SUFFICES ASSUME NEW u \in Targets, T!Busy(u)' PROVE locks'[AddressOf[u]] = u
    BY DEF T!LocksHeld
  <2>1. CASE u = t
    BY <1>0, <1>1, <2>1 DEF T!Busy, T!TypeOK
  <2>2. CASE u # t
    <3>1. T!Busy(u)
      BY <1>0, <1>1, <2>2 DEF T!Busy, T!TypeOK
    <3>. QED  BY <1>0, <2>2, <3>1 DEF T!LocksHeld
  <2>. QED  BY <2>1, <2>2
<1>4. T!BackupHeld'
  BY <1>0, <1>1 DEF T!BackupHeld, T!TypeOK
<1>5. T!EarlyKnown'
  BY <1>0 DEF T!EarlyKnown
<1>6. T!BackupIsCurrent'
  <2>. SUFFICES ASSUME NEW u \in Targets, T!Exclusive(u), T!KindOf(u) = "change",
                       at'[u] \in {"confirm", "work"}
                PROVE  saved'[u] = version[AddressOf[u]]
    BY <1>1 DEF T!BackupIsCurrent, T!KindOf
  <2>1. CASE u = t
    BY <1>0, <1>1, <2>1 DEF T!TypeOK
  <2>2. CASE u # t
    BY <1>0, <1>1, <2>2 DEF T!BackupIsCurrent, T!TypeOK
  <2>. QED  BY <2>1, <2>2
<1>7. T!CancelledInTime'
  BY <1>0, <1>1 DEF T!CancelledInTime, T!TypeOK
<1>. QED  BY <1>2, <1>3, <1>4, <1>5, <1>6, <1>7 DEF T!TargetsInv

(* job.cancel and a new address change nothing of where targets are.        *)
LEMMA TargetsCancelKeeps ==
  ASSUME T!TargetsInv, NEW j \in Jobs, T!Cancel(j)
  PROVE  T!TargetsInv'
<1>. USE TargetsSetting
<1>1. T!TypeOK'
  BY DEF T!TargetsInv, T!TypeOK, T!Cancel
<1>2. T!LocksHeld' /\ T!BackupHeld' /\ T!SlotsHeld' /\ T!BackupIsCurrent'
  BY DEF T!TargetsInv, T!Cancel, T!LocksHeld, T!Busy, T!Exclusive, T!KindOf,
     T!BackupHeld, T!SlotsHeld, T!HasSlot, T!BackupIsCurrent
<1>3. T!EarlyKnown' /\ T!CancelledInTime'
  BY DEF T!TargetsInv, T!Cancel, T!EarlyKnown, T!CancelledInTime
<1>. QED  BY <1>1, <1>2, <1>3 DEF T!TargetsInv

LEMMA TargetsStutterKeeps ==
  ASSUME T!TargetsInv,
           UNCHANGED <<kind, at, outcome, cancelled, slots, heavy, locks, version,
                                 saved, early>>,
         moved' \subseteq Targets
  PROVE  T!TargetsInv'
BY DEF T!TargetsInv, T!TypeOK, T!LocksHeld, T!Busy, T!Exclusive, T!KindOf, T!BackupHeld,
   T!SlotsHeld, T!HasSlot, T!EarlyKnown, T!BackupIsCurrent, T!CancelledInTime

LEMMA TargetsStepKeeps ==
  ASSUME T!TargetsInv, NEW t \in Targets, T!Step(t)
  PROVE  T!TargetsInv'
<1>. USE TargetsSetting
<1>0. /\ T!TypeOK /\ T!LocksHeld /\ T!BackupHeld /\ T!SlotsHeld /\ T!EarlyKnown
      /\ T!BackupIsCurrent /\ T!CancelledInTime
  BY DEF T!TargetsInv
<1>t. /\ heavy \in Targets \cup {None} /\ locks \in [Addresses -> Targets \cup {None}]
      /\ saved \in [Targets -> Nat \cup {None}] /\ AddressOf[t] \in Addresses
      /\ version[AddressOf[t]] \in Nat
  BY <1>0 DEF T!TypeOK
<1>r. {"completed", "failed", "cancelled"} \subseteq T!Outcomes
  BY DEF T!Outcomes
<1>p. {"slotted", "locked", "cleared", "backup", "saving", "confirm", "work"}
        = T!Places \ {"waiting", "over"}
  BY DEF T!Places
<1>h. ASSUME heavy = None
      PROVE  \A u \in Targets : at[u] # "saving"
  BY <1>0, <1>h DEF T!BackupHeld
<1>k. \A u \in Targets : at[u] = "saving" => heavy = u
  BY <1>0 DEF T!BackupHeld
<1>e. t \in early /\ t \notin Devices => at[t] \in {"waiting", "slotted", "locked", "over"}
  BY <1>0 DEF T!CancelledInTime, T!TypeOK, T!Places
<1>b. ASSUME T!Exclusive(t), at[t] \notin {"waiting", "slotted", "over"}
      PROVE  locks[AddressOf[t]] = t
  BY <1>0, <1>b DEF T!LocksHeld, T!Busy, T!TypeOK, T!Places
<1>1. CASE T!GiveUp(t)
  BY <1>1, <1>r, <1>t, TargetsLeaveKeeps DEF T!GiveUp
<1>2. CASE T!TakeSlot(t)
  <2>1. T!SlotsHeld' /\ slots' \in 0..Slots
    BY <1>0, <1>2, TargetsSlotTaken DEF T!TakeSlot
  <2>. QED  BY <1>2, <1>p, <1>t, <1>k, <2>1, TargetsGoKeeps DEF T!TakeSlot
<1>3. CASE T!Enter(t)
  <2>1. T!SlotsHeld' /\ slots' \in 0..Slots
    BY <1>0, <1>3, <1>p, TargetsSlotKept DEF T!Enter
  <2>2. locks' \in [Addresses -> Targets \cup {None}] /\ heavy' \in Targets \cup {None}
    BY <1>3, <1>t DEF T!Enter
  <2>3. \A u \in Targets \ {t} : /\ locks[AddressOf[u]] = u => locks'[AddressOf[u]] = u
                                 /\ at[u] = "saving" => heavy' = u
    BY <1>3, <1>t, <1>k, <1>h DEF T!Enter
  <2>4. T!Exclusive(t) => locks'[AddressOf[t]] = t
    BY <1>3, <1>t DEF T!Enter
  <2>. QED  BY <1>3, <1>p, <1>t, <2>1, <2>2, <2>3, <2>4, TargetsGoKeeps DEF T!Enter
<1>4. CASE T!Check(t)
  <2>1. CASE JobOf[t] \in cancelled
    BY <1>4, <2>1, <1>r, <1>t, TargetsLeaveKeeps DEF T!Check
  <2>2. CASE JobOf[t] \notin cancelled
    <3>1. T!SlotsHeld' /\ slots' \in 0..Slots
      BY <1>0, <1>4, <2>2, <1>p, TargetsSlotKept DEF T!Check
    <3>2. t \notin early
      BY <1>0, <2>2 DEF T!EarlyKnown
    <3>. QED  BY <1>4, <2>2, <1>p, <1>t, <1>k, <1>b, <3>1, <3>2, TargetsGoKeeps DEF T!Check
  <2>. QED  BY <2>1, <2>2
<1>5. CASE T!Connect(t)
  <2>1. CASE \E r \in {"failed", "completed"} : T!Leave(t, r)
    BY <1>5, <2>1, <1>e, <1>r, <1>t, TargetsLeaveKeeps DEF T!Connect
  <2>2. CASE /\ T!Go(t, IF T!KindOf(t) \in {"backup", "change"} THEN "backup" ELSE "work")
             /\ UNCHANGED <<outcome, slots, heavy, locks>>
    <3>1. PICK p \in {"backup", "work"} : T!Go(t, p)
            /\ (T!KindOf(t) = "change" => p = "backup")
      BY <2>2
    <3>2. T!SlotsHeld' /\ slots' \in 0..Slots
      BY <1>0, <1>5, <2>2, <3>1, <1>p, TargetsSlotKept DEF T!Connect
    <3>3. ~(t \in early /\ t \notin Devices)
      BY <1>5, <1>e DEF T!Connect
    <3>. QED  BY <1>5, <2>2, <3>1, <1>p, <1>t, <1>k, <1>b, <3>2, <3>3, TargetsGoKeeps
                 DEF T!Connect
  <2>. QED  BY <1>5, <2>1, <2>2 DEF T!Connect
<1>6. CASE T!StartAgent(t)
  <2>1. T!SlotsHeld' /\ slots' \in 0..Slots
    BY <1>0, <1>6, <1>p, TargetsSlotKept DEF T!StartAgent
  <2>2. heavy' \in Targets \cup {None} /\ ~T!Exclusive(t)
    BY <1>6, <1>t DEF T!StartAgent, T!Exclusive
  <2>3. \A u \in Targets \ {t} : at[u] = "saving" => heavy' = u
    BY <1>6, <1>k, <1>h DEF T!StartAgent
  <2>. QED  BY <1>6, <1>p, <1>t, <2>1, <2>2, <2>3, TargetsGoKeeps DEF T!StartAgent
<1>7. CASE T!StartBackup(t)
  <2>1. T!SlotsHeld' /\ slots' \in 0..Slots
    BY <1>0, <1>7, <1>p, TargetsSlotKept DEF T!StartBackup
  <2>2. \A u \in Targets : at[u] # "saving"
    BY <1>7, <1>h DEF T!StartBackup
  <2>. QED  BY <1>7, <1>p, <1>t, <1>b, <1>e, <2>1, <2>2, TargetsGoKeeps DEF T!StartBackup
<1>8. CASE T!EndBackup(t)
  <2>0. heavy = t /\ at[t] = "saving"
    BY <1>8, <1>k DEF T!EndBackup
  <2>v. /\ [saved EXCEPT ![t] = version[AddressOf[t]]] \in [Targets -> Nat \cup {None}]
        /\ \A u \in Targets \ {t} : [saved EXCEPT ![t] = version[AddressOf[t]]][u] = saved[u]
    BY <1>t
  <2>1. CASE \E r \in {"failed", "completed"} : T!Leave(t, r)
    BY <1>8, <2>0, <2>1, <2>v, <1>e, <1>r, <1>t, TargetsLeaveKeeps DEF T!EndBackup
  <2>2. CASE /\ heavy' = None /\ T!Go(t, "confirm")
             /\ saved' = [saved EXCEPT ![t] = version[AddressOf[t]]]
             /\ UNCHANGED <<outcome, slots, locks>>
    <3>1. T!SlotsHeld' /\ slots' \in 0..Slots
      BY <1>0, <2>0, <2>2, <1>p, TargetsSlotKept
    <3>2. \A u \in Targets \ {t} : at[u] # "saving"
      BY <1>k, <2>0
    <3>3. saved'[t] = version[AddressOf[t]]
      BY <1>t, <2>2
    <3>. QED
      BY <1>8, <2>0, <2>2, <2>v, <1>p, <1>t, <1>b, <1>e, <3>1, <3>2, <3>3,
         TargetsGoKeeps DEF T!EndBackup
  <2>. QED  BY <1>8, <2>1, <2>2 DEF T!EndBackup
<1>9. CASE T!Confirm(t)
  <2>1. CASE JobOf[t] \in cancelled
    BY <1>9, <2>1, <1>r, <1>t, TargetsLeaveKeeps DEF T!Confirm
  <2>2. CASE JobOf[t] \notin cancelled
    <3>1. T!SlotsHeld' /\ slots' \in 0..Slots
      BY <1>0, <1>9, <2>2, <1>p, TargetsSlotKept DEF T!Confirm
    <3>2. T!Exclusive(t) /\ T!KindOf(t) = "change" => saved[t] = version[AddressOf[t]]
      BY <1>0, <1>9 DEF T!Confirm, T!BackupIsCurrent
    <3>. QED  BY <1>9, <2>2, <1>p, <1>t, <1>k, <1>b, <1>e, <3>1, <3>2, TargetsGoKeeps
                 DEF T!Confirm
  <2>. QED  BY <2>1, <2>2
<1>10. CASE T!Work(t)
  <2>1. PICK r \in T!Outcomes : T!Leave(t, r) /\ (t \notin Devices => at[t] = "work")
    BY <1>10, <1>r DEF T!Work
  <2>2. ~(t \in early /\ t \notin Devices)
    BY <1>10, <1>e DEF T!Work
  <2>3. \/ version' = version
        \/ T!Busy(t) /\ version' = [version EXCEPT ![AddressOf[t]] = @ + 1]
    BY <1>10 DEF T!Work, T!Busy
  <2>. QED  BY <1>10, <1>t, <2>1, <2>2, <2>3, TargetsLeaveKeeps DEF T!Work
<1>. QED
  BY <1>1, <1>2, <1>3, <1>4, <1>5, <1>6, <1>7, <1>8, <1>9, <1>10 DEF T!Step

LEMMA TargetsStep == T!TargetsInv /\ [T!Next]_(T!vars) => T!TargetsInv'
<1>. SUFFICES ASSUME T!TargetsInv, [T!Next]_(T!vars) PROVE T!TargetsInv'
  OBVIOUS
<1>1. CASE \E j \in Jobs : T!Cancel(j)
  BY <1>1, TargetsCancelKeeps
<1>2. CASE \E t \in Targets : T!Move(t)
  BY <1>2, TargetsStutterKeeps DEF T!Move, T!TargetsInv, T!TypeOK
<1>3. CASE \E t \in Targets : T!Step(t)
  BY <1>3, TargetsStepKeeps
<1>4. CASE UNCHANGED T!vars
  BY <1>4, TargetsStutterKeeps DEF T!vars, T!TargetsInv, T!TypeOK
<1>. QED  BY <1>1, <1>2, <1>3, <1>4 DEF T!Next

(* Theorems *)

LEMMA TargetsRuns ==
  ASSUME [OperationsNext]_allVars, scenario' = "targets"
  PROVE  scenario = "targets" /\ [T!Next]_(T!vars)
<1>1. CASE OperationsNext
  BY <1>1 DEF OperationsNext
<1>2. CASE UNCHANGED allVars
  BY <1>2 DEF allVars, shared, ofTargets, T!vars
<1>. QED  BY <1>1, <1>2

LEMMA TargetsAlways == OperationsSpec => [](scenario = "targets" => T!TargetsInv)
<1>1. OperationsInit => (scenario = "targets" => T!TargetsInv)
  BY SettingsOK, TargetsInit DEF OperationsInit
<1>2. (scenario = "targets" => T!TargetsInv) /\ [OperationsNext]_allVars
        => (scenario = "targets" => T!TargetsInv)'
  BY SettingsOK, TargetsRuns, TargetsStep
<1>. QED  BY <1>1, <1>2, PTL DEF OperationsSpec

(* For any targets, jobs and addresses: changes of one address never        *)
(* overlap, and each starts from a complete backup with no change of SERVER *)
(* in between.                                                              *)
THEOREM TargetsCorrect == OperationsSpec => []ChangesAreSafe
<1>1. T!TargetsInv => T!OneChangeAtATime
  BY TargetsSetting DEF T!TargetsInv, T!LocksHeld, T!OneChangeAtATime, T!Busy
<1>2. (scenario = "targets" => T!TargetsInv) => ChangesAreSafe
  BY <1>1 DEF T!TargetsInv, T!ChangesAreSafe, ChangesAreSafe
<1>. QED  BY <1>2, TargetsAlways, PTL

(* A target whose job was cancelled before its first check is never         *)
(* connected and ends as cancelled.                                         *)
THEOREM CancelHonoured == OperationsSpec => []CancelledInTime
<1>1. (scenario = "targets" => T!TargetsInv) => CancelledInTime
  BY DEF T!TargetsInv, CancelledInTime
<1>. QED  BY <1>1, TargetsAlways, PTL

(* Free SSH slots and targets that hold one always add up, whatever way a   *)
(* target ends.                                                             *)
THEOREM SlotsReturned == OperationsSpec => [](scenario = "targets" => T!SlotsHeld)
<1>1. (scenario = "targets" => T!TargetsInv) => (scenario = "targets" => T!SlotsHeld)
  BY DEF T!TargetsInv
<1>. QED  BY <1>1, TargetsAlways, PTL

-------------------------------------------------------------------------------
(* Accounts and keys                                                        *)

Working == {"check", "act", "write", "rename"}

(* A script at work holds the lock on the host.                             *)
AccountsLockHeld == \A w \in Ops : A!Scripted(w) /\ step[w] \in Working => flock = w

(* Only scripts change the account, only deploy logs in afterwards.         *)
OwnSteps ==
  \A w \in Ops : IF A!Scripted(w) THEN step[w] # "probe" ELSE step[w] \notin {"flock",
    "act"}

(* What is under way and was not given up holds the lock at SERVER.         *)
GivenUp(w) == A!Scripted(w) /\ told[w] = "failed"
Answered ==
  \A w \in Ops :
    /\ busy = w => told[w] = "none" /\ step[w] \notin {"new", "ended"}
    /\ step[w] \notin {"new", "ended"} => busy = w \/ GivenUp(w)

(* Who drops a key, or is about to: a script and SERVER met, and the script *)
(* was given up.                                                            *)
Met(w, u) == A!Scripted(w) # A!Scripted(u) /\ (GivenUp(w) \/ GivenUp(u))
Meeting == \A w \in Ops : step[w] \in {"write", "rename"}
  => \A u \in A!Clobbers(w) : Met(w, u)
(* Keys that w read and that are gone since, which it would bring back.     *)
Revived ==
  \A w \in Ops : step[w] \in {"write", "rename"} =>
    \A u \in A!Keys(read[w]) \ A!Keys(file) : A!Scripted(u) = A!Scripted(w)
      /\ (A!Scripted(u) => GivenUp(u))
DropsMet == \A w, u \in Ops : <<w, u>> \in dropped => Met(w, u)

(* A key that was written is in the file, unless another write dropped it.  *)
Written(w) == w \in A!Keys(file) \/ \E u \in Ops : <<u, w>> \in dropped
Landed ==
  \A w \in Ops :
    step[w] = "probe" \/ (told[w] = "completed" /\ job[w] \in {"key", "deploy"})
      => Written(w)

AccountsInv ==
  /\ A!TypeOK /\ AccountsLockHeld /\ OwnSteps /\ Answered /\ Meeting /\ Revived /\ DropsMet
  /\ Landed /\ A!ChecksHold /\ A!NoKeyCopies

(* The initial states *)

LEMMA AccountsKeysType == ASSUME NEW f, f \in (SUBSET Ops) \cup {None}
  PROVE A!Keys(f) \subseteq Ops
<1>1. CASE f = None  BY <1>1 DEF A!Keys
<1>2. CASE f # None  BY <1>2 DEF A!Keys
<1>. QED  BY <1>1, <1>2

(* Of two that write authorized_keys at a time one is a script given up.    *)
LEMMA AccountsWritersMet ==
  ASSUME A!SettingOK, AccountsInv, NEW w \in Ops, NEW x \in Ops, w # x,
         step[w] \in {"write", "rename"}, step[x] \in {"write", "rename"}
  PROVE  Met(x, w)
BY DEF A!SettingOK, AccountsInv, AccountsLockHeld, Working, Answered, Met, GivenUp

LEMMA AccountsInit == A!SettingOK /\ A!Init => AccountsInv
<1>. SUFFICES ASSUME A!SettingOK, A!Init PROVE AccountsInv
  OBVIOUS
<1>. USE DEF A!Init
<1>1. A!TypeOK
  <2>1. account \in A!Account \cup {None}
    BY DEF A!Account
  <2>2. None \in (SUBSET Ops) \cup {None} /\ {} \in SUBSET Extra
    OBVIOUS
  <2>3. read \in [Ops -> (SUBSET Ops) \cup {None}] /\ todo \in [Ops -> SUBSET Extra]
    BY <2>2
  <2>4. file \in (SUBSET Ops) \cup {None}
    OBVIOUS
  <2>. QED  BY <2>1, <2>3, <2>4 DEF A!SettingOK, A!TypeOK, A!Kinds, A!Steps
<1>2. \A w \in Ops : step[w] = "new" /\ told[w] = "none"
  OBVIOUS
<1>3. AccountsLockHeld /\ OwnSteps /\ Answered
  BY <1>2 DEF A!SettingOK, AccountsLockHeld, Working, OwnSteps, Answered
<1>4. Meeting /\ Revived /\ DropsMet /\ Landed
  BY <1>2 DEF Meeting, Revived, DropsMet, Landed
<1>5. A!ChecksHold /\ A!NoKeyCopies
  BY <1>2 DEF A!ChecksHold, A!NoKeyCopies
<1>. QED  BY <1>1, <1>3, <1>4, <1>5 DEF AccountsInv

(* The steps *)

LEMMA AccountsStartKeeps ==
  ASSUME A!SettingOK, AccountsInv, NEW w \in Ops, A!Start(w)
  PROVE  AccountsInv'
<1>. USE DEF AccountsInv, A!Start, A!To, A!server, A!home, A!script
<1>1. A!TypeOK'  BY DEF A!SettingOK, A!TypeOK, A!Steps, A!Scripted
<1>2. AccountsLockHeld'  BY DEF A!SettingOK, A!TypeOK, AccountsLockHeld, Working, A!Scripted
<1>3. OwnSteps'  BY DEF A!TypeOK, OwnSteps, A!Scripted
<1>4. Answered'  BY DEF A!SettingOK, A!TypeOK, OwnSteps, Answered, GivenUp, A!Scripted,
                    A!Steps
<1>5. Meeting'
  BY DEF A!SettingOK, A!TypeOK, OwnSteps, AccountsLockHeld, Working, Answered, Meeting,
     Met, GivenUp, A!Clobbers, A!Scripted, A!Keys
<1>6. Revived'
  BY DEF A!SettingOK, A!TypeOK, OwnSteps, AccountsLockHeld, Working, Answered, Meeting,
     Revived, Met, GivenUp, A!Clobbers, A!Scripted, A!Keys
<1>7. DropsMet'
  BY DEF A!SettingOK, A!TypeOK, OwnSteps, Answered, Meeting, DropsMet, Met, GivenUp,
     A!Scripted
<1>8. Landed'
  BY DEF A!SettingOK, A!TypeOK, OwnSteps, Answered, Landed, Written, A!Scripted, A!Keys,
     A!Clobbers
<1>9. A!ChecksHold'
  BY DEF A!SettingOK, A!TypeOK, OwnSteps, AccountsLockHeld, Working, A!ChecksHold,
     A!Allowed, A!Scripted
<1>10. A!NoKeyCopies'
  BY DEF A!SettingOK, A!TypeOK, OwnSteps, Answered, GivenUp, A!NoKeyCopies, A!Scripted
<1>. QED  BY <1>1, <1>2, <1>3, <1>4, <1>5, <1>6, <1>7, <1>8, <1>9, <1>10

LEMMA AccountsTimeOutKeeps ==
  ASSUME A!SettingOK, AccountsInv, NEW w \in Ops, A!TimeOut(w)
  PROVE  AccountsInv'
<1>. USE DEF AccountsInv, A!TimeOut, A!Answer, A!Fault, A!home, A!script
<1>1. A!TypeOK'  BY DEF A!SettingOK, A!TypeOK, A!Steps, A!Scripted
<1>2. AccountsLockHeld'  BY DEF A!SettingOK, A!TypeOK, AccountsLockHeld, Working, A!Scripted
<1>3. OwnSteps'  BY DEF A!TypeOK, OwnSteps, A!Scripted
<1>4. Answered'  BY DEF A!SettingOK, A!TypeOK, OwnSteps, Answered, GivenUp, A!Scripted,
                    A!Steps
<1>5. Meeting'
  BY DEF A!SettingOK, A!TypeOK, OwnSteps, AccountsLockHeld, Working, Answered, Meeting,
     Met, GivenUp, A!Clobbers, A!Scripted, A!Keys
<1>6. Revived'
  BY DEF A!SettingOK, A!TypeOK, OwnSteps, AccountsLockHeld, Working, Answered, Meeting,
     Revived, Met, GivenUp, A!Clobbers, A!Scripted, A!Keys
<1>7. DropsMet'
  BY DEF A!SettingOK, A!TypeOK, OwnSteps, Answered, Meeting, DropsMet, Met, GivenUp,
     A!Scripted
<1>8. Landed'
  BY DEF A!SettingOK, A!TypeOK, OwnSteps, Answered, Landed, Written, A!Scripted, A!Keys,
     A!Clobbers
<1>9. A!ChecksHold'
  BY DEF A!SettingOK, A!TypeOK, OwnSteps, AccountsLockHeld, Working, A!ChecksHold,
     A!Allowed, A!Scripted
<1>10. A!NoKeyCopies'
  BY DEF A!SettingOK, A!TypeOK, OwnSteps, Answered, GivenUp, A!NoKeyCopies, A!Scripted
<1>. QED  BY <1>1, <1>2, <1>3, <1>4, <1>5, <1>6, <1>7, <1>8, <1>9, <1>10

LEMMA AccountsLockKeeps ==
  ASSUME A!SettingOK, AccountsInv, NEW w \in Ops, A!Lock(w)
  PROVE  AccountsInv'
<1>. USE DEF AccountsInv, A!Lock, A!To, A!server, A!home
<1>1. A!TypeOK'  BY DEF A!SettingOK, A!TypeOK, A!Steps, A!Scripted
<1>2. AccountsLockHeld'  BY DEF A!SettingOK, A!TypeOK, AccountsLockHeld, Working, A!Scripted
<1>3. OwnSteps'  BY DEF A!TypeOK, OwnSteps, A!Scripted
<1>4. Answered'  BY DEF A!SettingOK, A!TypeOK, OwnSteps, Answered, GivenUp, A!Scripted,
                    A!Steps
<1>5. Meeting'
  BY DEF A!SettingOK, A!TypeOK, OwnSteps, AccountsLockHeld, Working, Answered, Meeting,
     Met, GivenUp, A!Clobbers, A!Scripted, A!Keys
<1>6. Revived'
  BY DEF A!SettingOK, A!TypeOK, OwnSteps, AccountsLockHeld, Working, Answered, Meeting,
     Revived, Met, GivenUp, A!Clobbers, A!Scripted, A!Keys
<1>7. DropsMet'
  BY DEF A!SettingOK, A!TypeOK, OwnSteps, Answered, Meeting, DropsMet, Met, GivenUp,
     A!Scripted
<1>8. Landed'
  BY DEF A!SettingOK, A!TypeOK, OwnSteps, Answered, Landed, Written, A!Scripted, A!Keys,
     A!Clobbers
<1>9. A!ChecksHold'
  BY DEF A!SettingOK, A!TypeOK, OwnSteps, AccountsLockHeld, Working, A!ChecksHold,
     A!Allowed, A!Scripted
<1>10. A!NoKeyCopies'
  BY DEF A!SettingOK, A!TypeOK, OwnSteps, Answered, GivenUp, A!NoKeyCopies, A!Scripted
<1>. QED  BY <1>1, <1>2, <1>3, <1>4, <1>5, <1>6, <1>7, <1>8, <1>9, <1>10

LEMMA AccountsFailKeeps ==
  ASSUME A!SettingOK, AccountsInv, NEW w \in Ops, A!Fail(w)
  PROVE  AccountsInv'
<1>. USE DEF AccountsInv, A!Fail, A!End, A!To, A!Answer, A!Fault, A!server
<1>1. A!TypeOK'  BY DEF A!SettingOK, A!TypeOK, A!Steps, A!Scripted
<1>2. AccountsLockHeld'  BY DEF A!SettingOK, A!TypeOK, AccountsLockHeld, Working, A!Scripted
<1>3. OwnSteps'  BY DEF A!TypeOK, OwnSteps, A!Scripted
<1>4. Answered'  BY DEF A!SettingOK, A!TypeOK, OwnSteps, Answered, GivenUp, A!Scripted,
                    A!Steps
<1>5. Meeting'
  BY DEF A!SettingOK, A!TypeOK, OwnSteps, AccountsLockHeld, Working, Answered, Meeting,
     Met, GivenUp, A!Clobbers, A!Scripted, A!Keys
<1>6. Revived'
  <2>1. \A v \in Ops : GivenUp(v) => GivenUp(v)'
    BY DEF A!TypeOK, GivenUp, A!Scripted
  <2>2. \A v \in Ops : step'[v] \in {"write", "rename"} => step[v] \in {"write", "rename"}
    BY DEF A!TypeOK
  <2>3. \A v \in Ops : A!Keys(read[v])' = A!Keys(read[v])
    BY DEF A!Keys
  <2>4. A!Keys(file)' = A!Keys(file)
    BY DEF A!Keys
  <2>5. \A v \in Ops : A!Keys(read[v]) \subseteq Ops
    BY AccountsKeysType DEF A!TypeOK
  <2>. QED  BY <2>1, <2>2, <2>3, <2>4, <2>5 DEF Revived, A!Scripted
<1>7. DropsMet'
  BY DEF A!SettingOK, A!TypeOK, OwnSteps, Answered, Meeting, DropsMet, Met, GivenUp,
     A!Scripted
<1>8. Landed'
  BY DEF A!SettingOK, A!TypeOK, OwnSteps, Answered, Landed, Written, A!Scripted, A!Keys,
     A!Clobbers
<1>9. A!ChecksHold'
  BY DEF A!SettingOK, A!TypeOK, OwnSteps, AccountsLockHeld, Working, A!ChecksHold,
     A!Allowed, A!Scripted
<1>10. A!NoKeyCopies'
  BY DEF A!SettingOK, A!TypeOK, OwnSteps, Answered, GivenUp, A!NoKeyCopies, A!Scripted
<1>. QED  BY <1>1, <1>2, <1>3, <1>4, <1>5, <1>6, <1>7, <1>8, <1>9, <1>10

LEMMA AccountsCheckKeeps ==
  ASSUME A!SettingOK, AccountsInv, NEW w \in Ops, A!Check(w)
  PROVE  AccountsInv'
<1>. USE DEF AccountsInv, A!Check, A!End, A!To, A!Answer, A!server, A!home
<1>1. A!TypeOK'  BY DEF A!SettingOK, A!TypeOK, A!Steps, A!Scripted
<1>2. AccountsLockHeld'  BY DEF A!SettingOK, A!TypeOK, AccountsLockHeld, Working, A!Scripted
<1>3. OwnSteps'  BY DEF A!TypeOK, OwnSteps, A!Scripted
<1>4. Answered'  BY DEF A!SettingOK, A!TypeOK, OwnSteps, Answered, GivenUp, A!Scripted,
                    A!Steps
<1>5. Meeting'
  BY DEF A!SettingOK, A!TypeOK, OwnSteps, AccountsLockHeld, Working, Answered, Meeting,
     Met, GivenUp, A!Clobbers, A!Scripted, A!Keys
<1>6. Revived'
  BY DEF A!SettingOK, A!TypeOK, OwnSteps, AccountsLockHeld, Working, Answered, Meeting,
     Revived, Met, GivenUp, A!Clobbers, A!Scripted, A!Keys
<1>7. DropsMet'
  BY DEF A!SettingOK, A!TypeOK, OwnSteps, Answered, Meeting, DropsMet, Met, GivenUp,
     A!Scripted
<1>8. Landed'
  BY DEF A!SettingOK, A!TypeOK, OwnSteps, Answered, Landed, Written, A!Scripted, A!Keys,
     A!Clobbers
<1>9. A!ChecksHold'
  BY DEF A!SettingOK, A!TypeOK, OwnSteps, AccountsLockHeld, Working, A!ChecksHold,
     A!Allowed, A!Scripted
<1>10. A!NoKeyCopies'
  BY DEF A!SettingOK, A!TypeOK, OwnSteps, Answered, GivenUp, A!NoKeyCopies, A!Scripted
<1>. QED  BY <1>1, <1>2, <1>3, <1>4, <1>5, <1>6, <1>7, <1>8, <1>9, <1>10

LEMMA AccountsActKeeps ==
  ASSUME A!SettingOK, AccountsInv, NEW w \in Ops, A!Act(w)
  PROVE  AccountsInv'
<1>. USE DEF AccountsInv, A!Act, A!Finish, A!End, A!To, A!Answer, A!server, A!home
<1>a. A!Changed(w, account) \in A!Account \cup {None}
  <2>1. job[w] \in A!Kinds /\ job[w] \notin {"key", "remove_groups", "deploy"}
    BY DEF A!TypeOK, OwnSteps, A!Scripted
  <2>2. (CHOOSE g \in Extra : TRUE) \in Extra
    BY DEF A!SettingOK
  <2>3. job[w] # "create" => account \in A!Account
    BY DEF A!TypeOK
  <2>. QED  BY <2>1, <2>2, <2>3 DEF A!Changed, A!NewAccount, A!Account, A!Kinds
<1>1. A!TypeOK'
  BY <1>a DEF A!TypeOK, A!Steps, A!Scripted
<1>2. AccountsLockHeld'  BY DEF A!SettingOK, A!TypeOK, AccountsLockHeld, Working, A!Scripted
<1>3. OwnSteps'  BY DEF A!TypeOK, OwnSteps, A!Scripted
<1>4. Answered'  BY DEF A!SettingOK, A!TypeOK, OwnSteps, Answered, GivenUp, A!Scripted,
                    A!Steps
<1>5. Meeting'
  BY DEF A!SettingOK, A!TypeOK, OwnSteps, AccountsLockHeld, Working, Answered, Meeting,
     Met, GivenUp, A!Clobbers, A!Scripted, A!Keys
<1>6. Revived'
  BY DEF A!SettingOK, A!TypeOK, OwnSteps, AccountsLockHeld, Working, Answered, Meeting,
     Revived, Met, GivenUp, A!Clobbers, A!Scripted, A!Keys
<1>7. DropsMet'
  BY DEF A!SettingOK, A!TypeOK, OwnSteps, Answered, Meeting, DropsMet, Met, GivenUp,
     A!Scripted
<1>8. Landed'
  BY DEF A!SettingOK, A!TypeOK, OwnSteps, Answered, Landed, Written, A!Scripted, A!Keys,
     A!Clobbers
<1>9. A!ChecksHold'
  BY DEF A!SettingOK, A!TypeOK, OwnSteps, AccountsLockHeld, Working, A!ChecksHold,
     A!Allowed, A!Scripted
<1>10. A!NoKeyCopies'
  BY DEF A!SettingOK, A!TypeOK, OwnSteps, Answered, GivenUp, A!NoKeyCopies, A!Scripted
<1>. QED  BY <1>1, <1>2, <1>3, <1>4, <1>5, <1>6, <1>7, <1>8, <1>9, <1>10

LEMMA AccountsRemoveGroupKeeps ==
  ASSUME A!SettingOK, AccountsInv, NEW w \in Ops, A!RemoveGroup(w)
  PROVE  AccountsInv'
<1>. USE DEF AccountsInv, A!RemoveGroup, A!Finish, A!End, A!To, A!Answer, A!server, A!home
<1>a. account' \in A!Account
  BY DEF A!TypeOK, A!Account
<1>b. step'[w] \in {"act", "ended", "probe"} /\ step' \in [Ops -> A!Steps]
  BY DEF A!TypeOK, A!Steps
<1>c. todo' \in [Ops -> SUBSET Extra]
  BY DEF A!TypeOK
<1>1. A!TypeOK'
  BY <1>a, <1>b, <1>c DEF A!SettingOK, A!TypeOK
<1>2. AccountsLockHeld'  BY DEF A!SettingOK, A!TypeOK, AccountsLockHeld, Working, A!Scripted
<1>3. OwnSteps'  BY DEF A!TypeOK, OwnSteps, A!Scripted
<1>4. Answered'  BY DEF A!SettingOK, A!TypeOK, OwnSteps, Answered, GivenUp, A!Scripted,
                    A!Steps
<1>5. Meeting'
  BY DEF A!SettingOK, A!TypeOK, OwnSteps, AccountsLockHeld, Working, Answered, Meeting,
     Met, GivenUp, A!Clobbers, A!Scripted, A!Keys
<1>6. Revived'
  BY DEF A!SettingOK, A!TypeOK, OwnSteps, AccountsLockHeld, Working, Answered, Meeting,
     Revived, Met, GivenUp, A!Clobbers, A!Scripted, A!Keys
<1>7. DropsMet'
  BY DEF A!SettingOK, A!TypeOK, OwnSteps, Answered, Meeting, DropsMet, Met, GivenUp,
     A!Scripted
<1>8. Landed'
  BY DEF A!SettingOK, A!TypeOK, OwnSteps, Answered, Landed, Written, A!Scripted, A!Keys,
     A!Clobbers
<1>9. A!ChecksHold'
  BY DEF A!SettingOK, A!TypeOK, OwnSteps, AccountsLockHeld, Working, A!ChecksHold,
     A!Allowed, A!Scripted
<1>10. A!NoKeyCopies'
  BY DEF A!SettingOK, A!TypeOK, OwnSteps, Answered, GivenUp, A!NoKeyCopies, A!Scripted
<1>. QED  BY <1>1, <1>2, <1>3, <1>4, <1>5, <1>6, <1>7, <1>8, <1>9, <1>10

LEMMA AccountsReadKeeps ==
  ASSUME A!SettingOK, AccountsInv, NEW w \in Ops, A!Read(w)
  PROVE  AccountsInv'
<1>. USE DEF AccountsInv, A!Read, A!Finish, A!End, A!To, A!Answer, A!server
<1>1. A!TypeOK'  BY DEF A!SettingOK, A!TypeOK, A!Steps, A!Scripted
<1>2. AccountsLockHeld'  BY DEF A!SettingOK, A!TypeOK, AccountsLockHeld, Working, A!Scripted
<1>3. OwnSteps'  BY DEF A!TypeOK, OwnSteps, A!Scripted
<1>4. Answered'  BY DEF A!SettingOK, A!TypeOK, OwnSteps, Answered, GivenUp, A!Scripted,
                    A!Steps
<1>5. Meeting'
  BY DEF A!SettingOK, A!TypeOK, OwnSteps, AccountsLockHeld, Working, Answered, Meeting,
     Met, GivenUp, A!Clobbers, A!Scripted, A!Keys
<1>6. Revived'
  BY DEF A!SettingOK, A!TypeOK, OwnSteps, AccountsLockHeld, Working, Answered, Meeting,
     Revived, Met, GivenUp, A!Clobbers, A!Scripted, A!Keys
<1>7. DropsMet'
  BY DEF A!SettingOK, A!TypeOK, OwnSteps, Answered, Meeting, DropsMet, Met, GivenUp,
     A!Scripted
<1>8. Landed'
  BY DEF A!SettingOK, A!TypeOK, OwnSteps, Answered, Landed, Written, A!Scripted, A!Keys,
     A!Clobbers
<1>9. A!ChecksHold'
  BY DEF A!SettingOK, A!TypeOK, OwnSteps, AccountsLockHeld, Working, A!ChecksHold,
     A!Allowed, A!Scripted
<1>10. A!NoKeyCopies'
  BY DEF A!SettingOK, A!TypeOK, OwnSteps, Answered, GivenUp, A!NoKeyCopies, A!Scripted
<1>. QED  BY <1>1, <1>2, <1>3, <1>4, <1>5, <1>6, <1>7, <1>8, <1>9, <1>10

LEMMA AccountsWriteTempKeeps ==
  ASSUME A!SettingOK, AccountsInv, NEW w \in Ops, A!WriteTemp(w)
  PROVE  AccountsInv'
<1>. USE DEF AccountsInv, A!WriteTemp, A!To, A!server, A!script
<1>1. A!TypeOK'  BY DEF A!SettingOK, A!TypeOK, A!Steps, A!Scripted
<1>2. AccountsLockHeld'  BY DEF A!SettingOK, A!TypeOK, AccountsLockHeld, Working, A!Scripted
<1>3. OwnSteps'  BY DEF A!TypeOK, OwnSteps, A!Scripted
<1>4. Answered'  BY DEF A!SettingOK, A!TypeOK, OwnSteps, Answered, GivenUp, A!Scripted,
                    A!Steps
<1>5. Meeting'
  BY DEF A!SettingOK, A!TypeOK, OwnSteps, AccountsLockHeld, Working, Answered, Meeting,
     Met, GivenUp, A!Clobbers, A!Scripted, A!Keys
<1>6. Revived'
  BY DEF A!SettingOK, A!TypeOK, OwnSteps, AccountsLockHeld, Working, Answered, Meeting,
     Revived, Met, GivenUp, A!Clobbers, A!Scripted, A!Keys
<1>7. DropsMet'
  BY DEF A!SettingOK, A!TypeOK, OwnSteps, Answered, Meeting, DropsMet, Met, GivenUp,
     A!Scripted
<1>8. Landed'
  BY DEF A!SettingOK, A!TypeOK, OwnSteps, Answered, Landed, Written, A!Scripted, A!Keys,
     A!Clobbers
<1>9. A!ChecksHold'
  BY DEF A!SettingOK, A!TypeOK, OwnSteps, AccountsLockHeld, Working, A!ChecksHold,
     A!Allowed, A!Scripted
<1>10. A!NoKeyCopies'
  BY DEF A!SettingOK, A!TypeOK, OwnSteps, Answered, GivenUp, A!NoKeyCopies, A!Scripted
<1>. QED  BY <1>1, <1>2, <1>3, <1>4, <1>5, <1>6, <1>7, <1>8, <1>9, <1>10

LEMMA AccountsReplaceKeeps ==
  ASSUME A!SettingOK, AccountsInv, NEW w \in Ops, A!Replace(w)
  PROVE  AccountsInv'
<1>. USE DEF AccountsInv, A!Replace, A!Finish, A!End, A!To, A!Answer, A!server
<1>a. /\ step[w] = "rename"
      /\ \A x \in Ops : step'[x] \in {"write", "rename"} =>
           x # w /\ step[x] \in {"write", "rename"}
  BY DEF A!TypeOK
<1>b. /\ A!Keys(file) \subseteq Ops /\ A!Keys(read[w]) \subseteq Ops
      /\ \/ file' = file /\ dropped' = dropped /\ step'[w] = "ended" /\ told'[w] = "failed"
         \/ /\ file' = A!Keys(read[w]) \cup {w} /\ A!Keys(file)' = file'
            /\ dropped' = dropped \cup {<<w, u>> : u \in A!Clobbers(w)}
  <2>1. read[w] \in (SUBSET Ops) \cup {None} /\ file \in (SUBSET Ops) \cup {None}
          /\ step[w] # "ended"
    BY DEF A!TypeOK
  <2>2. A!Keys(read[w]) \subseteq Ops /\ A!Keys(file) \subseteq Ops
    BY <2>1, AccountsKeysType
  <2>3. A!Keys(read[w]) \cup {w} \in SUBSET Ops
    BY <2>1, <2>2
  <2>4. A!Keys(read[w]) \cup {w} # None
    BY <2>3 DEF A!SettingOK
  <2>. QED  BY <2>1, <2>2, <2>4 DEF A!Keys, A!TypeOK
<1>c. \A v \in Ops : /\ GivenUp(v) => GivenUp(v)'
                    /\ A!Scripted(v)' = A!Scripted(v)
  BY DEF A!TypeOK, Answered, GivenUp, A!Scripted
<1>d. \A u \in A!Keys(file)' : u \in Ops
        /\ (u \in A!Keys(file) \/ u \in A!Keys(read[w]) \/ u = w)
  BY <1>b DEF A!Keys
<1>e. \A u \in A!Keys(file) : u \in A!Keys(file)' \/ (u \in A!Clobbers(w)
        /\ <<w, u>> \in dropped')
  BY <1>b DEF A!Clobbers, A!Keys
<1>f. dropped \subseteq dropped'
  BY <1>b
<1>1. A!TypeOK'
  <2>1. file' \in (SUBSET Ops) \cup {None} /\ dropped' \subseteq Ops \X Ops
    BY <1>b DEF A!TypeOK, A!Keys, A!Clobbers, A!SettingOK
  <2>2. step' \in [Ops -> A!Steps]
    BY DEF A!TypeOK, A!Steps
  <2>. QED  BY <2>1, <2>2 DEF A!SettingOK, A!TypeOK, A!Steps, A!Scripted
<1>2. AccountsLockHeld'  BY DEF A!SettingOK, A!TypeOK, AccountsLockHeld, Working, A!Scripted
<1>3. OwnSteps'  BY DEF A!TypeOK, OwnSteps, A!Scripted
<1>4. Answered'  BY DEF A!SettingOK, A!TypeOK, OwnSteps, Answered, GivenUp, A!Scripted,
                    A!Steps
<1>5. Meeting'
  <2>. SUFFICES ASSUME NEW x \in Ops, step'[x] \in {"write", "rename"},
                         NEW u \in A!Clobbers(x)'
                PROVE  Met(x, u)'
    BY DEF Meeting
  <2>1. x # w /\ step[x] \in {"write", "rename"} /\ Met(x, w)
    BY <1>a, AccountsWritersMet
  <2>2. u \in A!Keys(file) /\ u \notin A!Keys(read[x]) => Met(x, u)
    BY <2>1 DEF Meeting, A!Clobbers
  <2>3. u \in A!Keys(read[w]) \ A!Keys(file) => Met(x, u)
    BY <1>a, <2>1 DEF Revived, Met, GivenUp
  <2>. QED  BY <1>a, <1>c, <1>d, <2>1, <2>2, <2>3 DEF A!Clobbers, Met
<1>6. Revived'
  <2>. SUFFICES ASSUME NEW x \in Ops, step'[x] \in {"write", "rename"},
                       NEW u \in A!Keys(read[x])', u \notin A!Keys(file)'
                PROVE  A!Scripted(u)' = A!Scripted(x)' /\ (A!Scripted(u)' => GivenUp(u)')
    BY DEF Revived
  <2>1. x # w /\ step[x] \in {"write", "rename"} /\ Met(x, w)
    BY <1>a, AccountsWritersMet
  <2>2. u \in A!Keys(read[x]) /\ u \in Ops
    <3>1. read[x] \in (SUBSET Ops) \cup {None} /\ read' = read
      BY DEF A!TypeOK
    <3>2. A!Keys(read[x]) \subseteq Ops
      BY <3>1, AccountsKeysType
    <3>. QED  BY <3>1, <3>2 DEF A!Keys
  <2>3. u \notin A!Keys(file) => A!Scripted(u) = A!Scripted(x)
          /\ (A!Scripted(u) => GivenUp(u))
    BY <2>1, <2>2 DEF Revived
  <2>4. u \in A!Keys(file) => Met(w, u)
    BY <1>a, <1>e DEF Meeting, A!Clobbers
  <2>. QED  BY <1>a, <1>c, <2>1, <2>2, <2>3, <2>4 DEF Met, GivenUp, A!Scripted
<1>7. DropsMet'
  BY DEF A!SettingOK, A!TypeOK, OwnSteps, Answered, Meeting, DropsMet, Met, GivenUp,
     A!Scripted
<1>8. Landed'
  <2>1. \A v \in Ops : Written(v) => Written(v)'
    BY <1>e, <1>f DEF Written
  <2>2. \A v \in Ops \ {w} : step'[v] = step[v] /\ told'[v] = told[v]
    BY DEF A!TypeOK
  <2>3. step'[w] = "probe" \/ told'[w] = "completed" => w \in A!Keys(file)'
    BY <1>b DEF A!TypeOK
  <2>. QED  BY <2>1, <2>2, <2>3 DEF Landed, Written
<1>9. A!ChecksHold'
  BY DEF A!SettingOK, A!TypeOK, OwnSteps, AccountsLockHeld, Working, A!ChecksHold,
     A!Allowed, A!Scripted
<1>10. A!NoKeyCopies'
  BY DEF A!SettingOK, A!TypeOK, OwnSteps, Answered, GivenUp, A!NoKeyCopies, A!Scripted
<1>. QED  BY <1>1, <1>2, <1>3, <1>4, <1>5, <1>6, <1>7, <1>8, <1>9, <1>10

LEMMA AccountsProbeKeeps ==
  ASSUME A!SettingOK, AccountsInv, NEW w \in Ops, A!Probe(w)
  PROVE  AccountsInv'
<1>. USE DEF AccountsInv, A!Probe, A!End, A!To, A!Answer, A!home
<1>1. A!TypeOK'  BY DEF A!SettingOK, A!TypeOK, A!Steps, A!Scripted
<1>2. AccountsLockHeld'  BY DEF A!SettingOK, A!TypeOK, AccountsLockHeld, Working, A!Scripted
<1>3. OwnSteps'  BY DEF A!TypeOK, OwnSteps, A!Scripted
<1>4. Answered'  BY DEF A!SettingOK, A!TypeOK, OwnSteps, Answered, GivenUp, A!Scripted,
                    A!Steps
<1>5. Meeting'
  BY DEF A!SettingOK, A!TypeOK, OwnSteps, AccountsLockHeld, Working, Answered, Meeting,
     Met, GivenUp, A!Clobbers, A!Scripted, A!Keys
<1>6. Revived'
  BY DEF A!SettingOK, A!TypeOK, OwnSteps, AccountsLockHeld, Working, Answered, Meeting,
     Revived, Met, GivenUp, A!Clobbers, A!Scripted, A!Keys
<1>7. DropsMet'
  BY DEF A!SettingOK, A!TypeOK, OwnSteps, Answered, Meeting, DropsMet, Met, GivenUp,
     A!Scripted
<1>8. Landed'
  BY DEF A!SettingOK, A!TypeOK, OwnSteps, Answered, Landed, Written, A!Scripted, A!Keys,
     A!Clobbers
<1>9. A!ChecksHold'
  BY DEF A!SettingOK, A!TypeOK, OwnSteps, AccountsLockHeld, Working, A!ChecksHold,
     A!Allowed, A!Scripted
<1>10. A!NoKeyCopies'
  BY DEF A!SettingOK, A!TypeOK, OwnSteps, Answered, GivenUp, A!NoKeyCopies, A!Scripted
<1>. QED  BY <1>1, <1>2, <1>3, <1>4, <1>5, <1>6, <1>7, <1>8, <1>9, <1>10

LEMMA AccountsDisconnectKeeps ==
  ASSUME A!SettingOK, AccountsInv, NEW w \in Ops, A!Disconnect(w)
  PROVE  AccountsInv'
<1>. USE DEF AccountsInv, A!Disconnect, A!End, A!To, A!Answer, A!Fault
<1>1. A!TypeOK'  BY DEF A!SettingOK, A!TypeOK, A!Steps, A!Scripted
<1>2. AccountsLockHeld'  BY DEF A!SettingOK, A!TypeOK, AccountsLockHeld, Working, A!Scripted
<1>3. OwnSteps'  BY DEF A!TypeOK, OwnSteps, A!Scripted
<1>4. Answered'  BY DEF A!SettingOK, A!TypeOK, OwnSteps, Answered, GivenUp, A!Scripted,
                    A!Steps
<1>5. Meeting'
  BY DEF A!SettingOK, A!TypeOK, OwnSteps, AccountsLockHeld, Working, Answered, Meeting,
     Met, GivenUp, A!Clobbers, A!Scripted, A!Keys
<1>6. Revived'
  BY DEF A!SettingOK, A!TypeOK, OwnSteps, AccountsLockHeld, Working, Answered, Meeting,
     Revived, Met, GivenUp, A!Clobbers, A!Scripted, A!Keys
<1>7. DropsMet'
  BY DEF A!SettingOK, A!TypeOK, OwnSteps, Answered, Meeting, DropsMet, Met, GivenUp,
     A!Scripted
<1>8. Landed'
  BY DEF A!SettingOK, A!TypeOK, OwnSteps, Answered, Landed, Written, A!Scripted, A!Keys,
     A!Clobbers
<1>9. A!ChecksHold'
  BY DEF A!SettingOK, A!TypeOK, OwnSteps, AccountsLockHeld, Working, A!ChecksHold,
     A!Allowed, A!Scripted
<1>10. A!NoKeyCopies'
  BY DEF A!SettingOK, A!TypeOK, OwnSteps, Answered, GivenUp, A!NoKeyCopies, A!Scripted
<1>. QED  BY <1>1, <1>2, <1>3, <1>4, <1>5, <1>6, <1>7, <1>8, <1>9, <1>10

LEMMA AccountsEditKeeps == ASSUME A!SettingOK, AccountsInv, A!Edit PROVE AccountsInv'
<1>. USE DEF AccountsInv, A!Edit, A!server, A!home
<1>1. A!TypeOK'
  <2>1. account' \in A!Account \cup {None}
    BY DEF A!Account
  <2>. QED  BY <2>1 DEF A!SettingOK, A!TypeOK
<1>2. AccountsLockHeld' /\ OwnSteps' /\ Answered'
  BY DEF AccountsLockHeld, A!Scripted, OwnSteps, Answered, GivenUp
<1>3. Meeting' /\ Revived' /\ DropsMet'
  BY DEF Meeting, Revived, DropsMet, Met, GivenUp, A!Scripted, A!Clobbers, A!Keys
<1>4. Landed' /\ A!NoKeyCopies'
  BY DEF Landed, Written, A!Keys, A!NoKeyCopies, A!Scripted
<1>5. A!ChecksHold'
  BY DEF A!ChecksHold
<1>. QED  BY <1>1, <1>2, <1>3, <1>4, <1>5

LEMMA AccountsStep == A!SettingOK /\ AccountsInv /\ [A!Next]_(A!vars) => AccountsInv'
<1>. SUFFICES ASSUME A!SettingOK, AccountsInv, [A!Next]_(A!vars) PROVE AccountsInv'
  OBVIOUS
<1>1. CASE \E w \in Ops : A!Start(w) \/ A!TimeOut(w) \/ A!Disconnect(w)
  BY <1>1, AccountsStartKeeps, AccountsTimeOutKeeps, AccountsDisconnectKeeps
<1>2. CASE \E w \in Ops : A!OnHost(w)
  BY <1>2, AccountsLockKeeps, AccountsFailKeeps, AccountsCheckKeeps, AccountsActKeeps,
     AccountsRemoveGroupKeeps, AccountsReadKeeps, AccountsWriteTempKeeps,
     AccountsReplaceKeeps, AccountsProbeKeeps DEF A!OnHost
<1>3. CASE A!Edit
  BY <1>3, AccountsEditKeeps
<1>4. CASE UNCHANGED A!vars
  <2>. USE <1>4 DEF A!vars, AccountsInv
  <2>1. A!TypeOK' /\ AccountsLockHeld' /\ OwnSteps' /\ Answered'
    BY DEF A!TypeOK, AccountsLockHeld, OwnSteps, Answered, GivenUp, A!Scripted
  <2>2. Meeting' /\ Revived' /\ DropsMet'
    BY DEF Meeting, Revived, DropsMet, Met, GivenUp, A!Scripted, A!Clobbers, A!Keys
  <2>3. Landed' /\ A!NoKeyCopies'
    BY DEF Landed, Written, A!Keys, A!NoKeyCopies, A!Scripted
  <2>4. A!ChecksHold'
    BY DEF A!ChecksHold, A!Allowed
  <2>. QED  BY <2>1, <2>2, <2>3, <2>4
<1>. QED  BY <1>1, <1>2, <1>3, <1>4 DEF A!Next

LEMMA AccountsRuns ==
  ASSUME [OperationsNext]_allVars, scenario' = "accounts"
  PROVE  scenario = "accounts" /\ [A!Next]_(A!vars)
<1>1. CASE OperationsNext
  BY <1>1 DEF OperationsNext
<1>2. CASE UNCHANGED allVars
  BY <1>2 DEF allVars, shared, ofAccounts, A!vars
<1>. QED  BY <1>1, <1>2

LEMMA AccountsAlways == OperationsSpec => [](scenario = "accounts" => AccountsInv)
<1>1. OperationsInit => (scenario = "accounts" => AccountsInv)
  BY SettingsOK, AccountsInit DEF OperationsInit
<1>2. (scenario = "accounts" => AccountsInv) /\ [OperationsNext]_allVars
        => (scenario = "accounts" => AccountsInv)'
  BY SettingsOK, AccountsRuns, AccountsStep
<1>. QED  BY <1>1, <1>2, PTL DEF OperationsSpec

(* For any operations and groups: a command runs only while what it was     *)
(* checked against holds, a key reported as deployed is in the file or was  *)
(* dropped where SERVER gave a script up, and no copy of the keys stays.    *)
THEOREM AccountsCorrect == OperationsSpec => []AccountsHold
<1>1. (scenario = "accounts" => AccountsInv) => AccountsHold
  BY DEF AccountsHold, A!AccountsHold, AccountsInv, A!KeysKept, Landed, Written, DropsMet, Met, GivenUp
<1>. QED  BY <1>1, AccountsAlways, PTL

-------------------------------------------------------------------------------
(* Patches                                                                  *)

(* What the places say of the jobs: an installation belongs to an apply,    *)
(* and an apply has a reviewed plan.                                        *)
PlacesFit ==
  /\ phase \in {"review", "over"} => at = "idle"
  /\ how # "files" => at \in {"idle", "resolve", "install", "wait"} /\ upload = None
       /\ root = None
  /\ at \in {"install", "wait"} => phase = "apply"
  /\ at = "wait" => running
  /\ running => /\ installed = None /\ phase \in {"apply", "over"}
                /\ phase = "apply" => at \in {"wait", "clean", "unstage"}
  /\ installed # None => phase = "over" \/ (phase = "apply" /\ at \in {"clean", "unstage"})
PlanKnown ==
  \/ phase \in {"review", "apply"} \/ running \/ installed # None
  \/ phase = "plan" /\ at \in {"clean", "unstage"} /\ told = "completed"
  => plan \in P!Reviewed

(* The directory of root holds what was sent, file by file, and all of it   *)
(* when the package manager looks.                                          *)
CopiesFit ==
  how = "files" =>
    /\ at \in {"upload", "root"} => sent = P!Empty
    /\ at \in {"root", "send", "copy"} => upload # None
    /\ at \in {"send", "resolve", "install", "wait"} => root = sent
    /\ at = "copy" => \E g \in Files : sent[g] # None /\ root = [sent EXCEPT ![g] = None]
    /\ at \in {"resolve", "install", "wait"} \/ running => sent \in P!Bytes
    /\ running => root \in {None, sent}

(* An apply goes on only with what was reviewed.                            *)
SentReviewed ==
  how = "files" =>
    /\ phase = "apply" /\ at \in {"send", "copy", "resolve", "install", "wait"} =>
         \A f \in Files : sent[f] # None => sent[f] = plan.bytes[f]
    /\ running => sent = plan.bytes
LookHolds ==
  /\ (at = "install" \/ running) /\ ~raced => P!Unchanged
  /\ how = "apt" /\ plan # None => plan.bytes = [f \in Files |-> 0]

(* Without a fault every place has its directories.                         *)
DirectoriesFit ==
  how = "files" /\ faults = 0 =>
    /\ at \in {"idle", "upload"} => upload = None /\ root = None
    /\ at = "unstage" => root = None

(* A job that could not name a directory fails, and it was the last one.    *)
UnreadFails ==
  /\ told = "completed" => phase \in {"review", "over"} \/ at \in {"clean", "unstage"}
  /\ unread # "none" =>
       /\ installed = None /\ ~running /\ told # "completed" /\ phase # "review"
       /\ phase # "over" => at \in {"clean", "unstage"} /\ told = "failed"

PatchesInv ==
  /\ P!TypeOK /\ PlacesFit /\ PlanKnown /\ CopiesFit /\ SentReviewed /\ LookHolds
       /\ DirectoriesFit /\ UnreadFails
  /\ P!AppliedIsReviewed

(* The initial states *)

LEMMA PatchesInit == P!SettingOK /\ P!Init => PatchesInv
<1>. SUFFICES ASSUME P!SettingOK, P!Init PROVE PatchesInv
  OBVIOUS
<1>. USE DEF P!Init
<1>1. P!TypeOK
  <2>1. source \in P!Bytes
    BY DEF P!SettingOK, P!Bytes
  <2>2. sent \in [Files -> 0..MaxSwaps \cup {None}]
    BY DEF P!Empty
  <2>3. upload \in P!Staged /\ root \in P!Staged
    BY DEF P!Staged
  <2>4. /\ packages \in 0..MaxEdits["patches"] /\ edits \in 0..MaxEdits["patches"]
        /\ swaps \in 0..MaxSwaps /\ faults \in 0..MaxFaults["patches"]
    BY DEF P!SettingOK
  <2>. QED  BY <2>1, <2>2, <2>3, <2>4 DEF P!TypeOK, P!Places
<1>2. PlacesFit /\ PlanKnown /\ CopiesFit /\ SentReviewed /\ LookHolds /\ DirectoriesFit
        /\ UnreadFails
  BY DEF PlacesFit, PlanKnown, CopiesFit, SentReviewed, LookHolds, DirectoriesFit, UnreadFails
<1>. QED  BY <1>1, <1>2 DEF PatchesInv, P!AppliedIsReviewed

(* The steps *)

LEMMA PatchesBeginKeeps ==
  ASSUME P!SettingOK, PatchesInv, P!Begin
  PROVE  PatchesInv'
<1>. USE DEF PatchesInv, P!Begin, P!host, P!bounds
<1>1. P!TypeOK'
  BY DEF P!SettingOK, P!TypeOK, PlacesFit, PlanKnown, CopiesFit, P!Places, P!Bytes,
     P!Empty, P!Staged, P!Reviewed
<1>2. PlacesFit'  BY DEF P!SettingOK, P!TypeOK, PlacesFit, P!Staged, P!Reviewed
<1>3. PlanKnown'
  BY DEF P!SettingOK, P!TypeOK, PlacesFit, PlanKnown, CopiesFit, P!Bytes, P!Reviewed, P!Look
<1>4. CopiesFit'  BY DEF P!SettingOK, P!TypeOK, PlacesFit, CopiesFit, P!Empty, P!Bytes,
                     P!Staged
<1>5. SentReviewed'
  BY DEF P!SettingOK, P!TypeOK, PlacesFit, CopiesFit, SentReviewed, P!Empty, P!Bytes,
     P!Reviewed, PlanKnown
<1>6. LookHolds'  BY DEF P!SettingOK, P!TypeOK, PlacesFit, LookHolds, P!Unchanged, P!Look
<1>7. DirectoriesFit'  BY DEF P!SettingOK, P!TypeOK, PlacesFit, DirectoriesFit
<1>8. P!AppliedIsReviewed'
  BY DEF P!SettingOK, P!TypeOK, PlacesFit, PlanKnown, CopiesFit, SentReviewed,
     LookHolds, P!Unchanged, P!AppliedIsReviewed, P!Reviewed, P!Look
<1>9. UnreadFails'  BY DEF P!TypeOK, PlacesFit, UnreadFails, P!Done
<1>. QED  BY <1>1, <1>2, <1>3, <1>4, <1>5, <1>6, <1>7, <1>8, <1>9

LEMMA PatchesReviewKeeps ==
  ASSUME P!SettingOK, PatchesInv, P!Review
  PROVE  PatchesInv'
<1>. USE DEF PatchesInv, P!Review, P!host, P!bounds
<1>1. P!TypeOK'
  BY DEF P!SettingOK, P!TypeOK, PlacesFit, PlanKnown, CopiesFit, P!Places, P!Bytes,
     P!Empty, P!Staged, P!Reviewed
<1>2. PlacesFit'  BY DEF P!SettingOK, P!TypeOK, PlacesFit, P!Staged, P!Reviewed
<1>3. PlanKnown'
  BY DEF P!SettingOK, P!TypeOK, PlacesFit, PlanKnown, CopiesFit, P!Bytes, P!Reviewed, P!Look
<1>4. CopiesFit'  BY DEF P!SettingOK, P!TypeOK, PlacesFit, CopiesFit, P!Empty, P!Bytes,
                     P!Staged
<1>5. SentReviewed'
  BY DEF P!SettingOK, P!TypeOK, PlacesFit, CopiesFit, SentReviewed, P!Empty, P!Bytes,
     P!Reviewed, PlanKnown
<1>6. LookHolds'  BY DEF P!SettingOK, P!TypeOK, PlacesFit, LookHolds, P!Unchanged, P!Look
<1>7. DirectoriesFit'  BY DEF P!SettingOK, P!TypeOK, PlacesFit, DirectoriesFit
<1>8. P!AppliedIsReviewed'
  BY DEF P!SettingOK, P!TypeOK, PlacesFit, PlanKnown, CopiesFit, SentReviewed,
     LookHolds, P!Unchanged, P!AppliedIsReviewed, P!Reviewed, P!Look
<1>9. UnreadFails'  BY DEF P!TypeOK, PlacesFit, UnreadFails, P!Done
<1>. QED  BY <1>1, <1>2, <1>3, <1>4, <1>5, <1>6, <1>7, <1>8, <1>9

LEMMA PatchesMakeUploadKeeps ==
  ASSUME P!SettingOK, PatchesInv, P!MakeUpload
  PROVE  PatchesInv'
<1>. USE DEF PatchesInv, P!MakeUpload, P!Raise, P!Done, P!host, P!bounds
<1>1. P!TypeOK'
  BY DEF P!SettingOK, P!TypeOK, PlacesFit, PlanKnown, CopiesFit, P!Places, P!Bytes,
     P!Empty, P!Staged, P!Reviewed
<1>2. PlacesFit'  BY DEF P!SettingOK, P!TypeOK, PlacesFit, P!Staged, P!Reviewed
<1>3. PlanKnown'
  BY DEF P!SettingOK, P!TypeOK, PlacesFit, PlanKnown, CopiesFit, P!Bytes, P!Reviewed, P!Look
<1>4. CopiesFit'  BY DEF P!SettingOK, P!TypeOK, PlacesFit, CopiesFit, P!Empty, P!Bytes,
                     P!Staged
<1>5. SentReviewed'
  BY DEF P!SettingOK, P!TypeOK, PlacesFit, CopiesFit, SentReviewed, P!Empty, P!Bytes,
     P!Reviewed, PlanKnown
<1>6. LookHolds'  BY DEF P!SettingOK, P!TypeOK, PlacesFit, LookHolds, P!Unchanged, P!Look
<1>7. DirectoriesFit'  BY DEF P!SettingOK, P!TypeOK, PlacesFit, DirectoriesFit
<1>8. P!AppliedIsReviewed'
  BY DEF P!SettingOK, P!TypeOK, PlacesFit, PlanKnown, CopiesFit, SentReviewed,
     LookHolds, P!Unchanged, P!AppliedIsReviewed, P!Reviewed, P!Look
<1>9. UnreadFails'  BY DEF P!TypeOK, PlacesFit, UnreadFails, P!Done
<1>. QED  BY <1>1, <1>2, <1>3, <1>4, <1>5, <1>6, <1>7, <1>8, <1>9

LEMMA PatchesMakeRootKeeps ==
  ASSUME P!SettingOK, PatchesInv, P!MakeRoot
  PROVE  PatchesInv'
<1>. USE DEF PatchesInv, P!MakeRoot, P!Raise, P!Done, P!host, P!bounds
<1>1. P!TypeOK'
  BY DEF P!SettingOK, P!TypeOK, PlacesFit, PlanKnown, CopiesFit, P!Places, P!Bytes,
     P!Empty, P!Staged, P!Reviewed
<1>2. PlacesFit'  BY DEF P!SettingOK, P!TypeOK, PlacesFit, P!Staged, P!Reviewed
<1>3. PlanKnown'
  BY DEF P!SettingOK, P!TypeOK, PlacesFit, PlanKnown, CopiesFit, P!Bytes, P!Reviewed, P!Look
<1>4. CopiesFit'  BY DEF P!SettingOK, P!TypeOK, PlacesFit, CopiesFit, P!Empty, P!Bytes,
                     P!Staged
<1>5. SentReviewed'
  BY DEF P!SettingOK, P!TypeOK, PlacesFit, CopiesFit, SentReviewed, P!Empty, P!Bytes,
     P!Reviewed, PlanKnown
<1>6. LookHolds'  BY DEF P!SettingOK, P!TypeOK, PlacesFit, LookHolds, P!Unchanged, P!Look
<1>7. DirectoriesFit'  BY DEF P!SettingOK, P!TypeOK, PlacesFit, DirectoriesFit
<1>8. P!AppliedIsReviewed'
  BY DEF P!SettingOK, P!TypeOK, PlacesFit, PlanKnown, CopiesFit, SentReviewed,
     LookHolds, P!Unchanged, P!AppliedIsReviewed, P!Reviewed, P!Look
<1>9. UnreadFails'  BY DEF P!TypeOK, PlacesFit, UnreadFails, P!Done
<1>. QED  BY <1>1, <1>2, <1>3, <1>4, <1>5, <1>6, <1>7, <1>8, <1>9

LEMMA PatchesSendKeeps ==
  ASSUME P!SettingOK, PatchesInv, P!Send
  PROVE  PatchesInv'
<1>. USE DEF PatchesInv, P!Send, P!Raise, P!host, P!bounds
<1>1. P!TypeOK'
  BY DEF P!SettingOK, P!TypeOK, PlacesFit, PlanKnown, CopiesFit, P!Places, P!Bytes,
     P!Empty, P!Staged, P!Reviewed
<1>2. PlacesFit'  BY DEF P!SettingOK, P!TypeOK, PlacesFit, P!Staged, P!Reviewed
<1>3. PlanKnown'
  BY DEF P!SettingOK, P!TypeOK, PlacesFit, PlanKnown, CopiesFit, P!Bytes, P!Reviewed, P!Look
<1>4. CopiesFit'
  <2>1. CASE None \notin P!Range(sent) /\ at' = "resolve"
               /\ UNCHANGED <<upload, phase, told, sent>>
    <3>1. how = "files" => sent \in P!Bytes
      BY <2>1 DEF P!TypeOK, P!Bytes, P!Range
    <3>. QED  BY <2>1, <3>1 DEF P!TypeOK, CopiesFit, PlacesFit
  <2>2. CASE \E f \in Files : sent[f] = None /\ upload' = [upload EXCEPT ![f] = source[f]]
                              /\ at' = "copy" /\ sent' = [sent EXCEPT ![f] = source[f]]
    <3>1. PICK f \in Files : sent[f] = None /\ upload' = [upload EXCEPT ![f] = source[f]]
                              /\ at' = "copy" /\ sent' = [sent EXCEPT ![f] = source[f]]
      BY <2>2
    <3>2. source[f] # None /\ sent'[f] = source[f]
      BY <3>1 DEF P!SettingOK, P!TypeOK, P!Bytes
    <3>3. how = "files" => root' = [sent' EXCEPT ![f] = None]
      BY <3>1 DEF P!TypeOK, CopiesFit
    <3>4. upload # None => upload' # None
      <4>1. source[f] \in 0..MaxSwaps \cup {None}
        BY DEF P!TypeOK, P!Bytes
      <4>2. upload # None => upload' \in [Files -> 0..MaxSwaps \cup {None}]
        BY <3>1, <4>1 DEF P!TypeOK, P!Staged
      <4>. QED  BY <4>2 DEF P!SettingOK
    <3>. QED  BY <3>1, <3>2, <3>3, <3>4 DEF CopiesFit, PlacesFit
  <2>3. CASE at' = "clean" /\ UNCHANGED sent
    BY <2>3 DEF CopiesFit, PlacesFit
  <2>. QED  BY <2>1, <2>2, <2>3 DEF P!Done, PlacesFit
<1>5. SentReviewed'
  BY DEF P!SettingOK, P!TypeOK, PlacesFit, CopiesFit, SentReviewed, P!Empty, P!Bytes,
     P!Reviewed, PlanKnown
<1>6. LookHolds'  BY DEF P!SettingOK, P!TypeOK, PlacesFit, LookHolds, P!Unchanged, P!Look
<1>7. DirectoriesFit'  BY DEF P!SettingOK, P!TypeOK, PlacesFit, DirectoriesFit
<1>8. P!AppliedIsReviewed'
  BY DEF P!SettingOK, P!TypeOK, PlacesFit, PlanKnown, CopiesFit, SentReviewed,
     LookHolds, P!Unchanged, P!AppliedIsReviewed, P!Reviewed, P!Look
<1>9. UnreadFails'  BY DEF P!TypeOK, PlacesFit, UnreadFails, P!Done
<1>. QED  BY <1>1, <1>2, <1>3, <1>4, <1>5, <1>6, <1>7, <1>8, <1>9

LEMMA PatchesCopyKeeps ==
  ASSUME P!SettingOK, PatchesInv, NEW f \in Files, P!Copy(f)
  PROVE  PatchesInv'
<1>. USE DEF PatchesInv, P!Copy, P!Raise, P!host, P!bounds
<1>1. P!TypeOK'
  BY DEF P!SettingOK, P!TypeOK, PlacesFit, PlanKnown, CopiesFit, P!Places, P!Bytes,
     P!Empty, P!Staged, P!Reviewed
<1>2. PlacesFit'  BY DEF P!SettingOK, P!TypeOK, PlacesFit, P!Staged, P!Reviewed
<1>3. PlanKnown'
  BY DEF P!SettingOK, P!TypeOK, PlacesFit, PlanKnown, CopiesFit, P!Bytes, P!Reviewed, P!Look
<1>4. CopiesFit'  BY DEF P!SettingOK, P!TypeOK, PlacesFit, CopiesFit, P!Empty, P!Bytes,
                     P!Staged
<1>5. SentReviewed'
  BY DEF P!SettingOK, P!TypeOK, PlacesFit, CopiesFit, SentReviewed, P!Empty, P!Bytes,
     P!Reviewed, PlanKnown
<1>6. LookHolds'  BY DEF P!SettingOK, P!TypeOK, PlacesFit, LookHolds, P!Unchanged, P!Look
<1>7. DirectoriesFit'  BY DEF P!SettingOK, P!TypeOK, PlacesFit, DirectoriesFit
<1>8. P!AppliedIsReviewed'
  BY DEF P!SettingOK, P!TypeOK, PlacesFit, PlanKnown, CopiesFit, SentReviewed,
     LookHolds, P!Unchanged, P!AppliedIsReviewed, P!Reviewed, P!Look
<1>9. UnreadFails'  BY DEF P!TypeOK, PlacesFit, UnreadFails, P!Done
<1>. QED  BY <1>1, <1>2, <1>3, <1>4, <1>5, <1>6, <1>7, <1>8, <1>9

LEMMA PatchesResolveKeeps ==
  ASSUME P!SettingOK, PatchesInv, P!Resolve
  PROVE  PatchesInv'
<1>. USE DEF PatchesInv, P!Resolve, P!Raise, P!Done, P!Unchanged, P!bounds
<1>a. at \in {"resolve", "wait"} \/ (running /\ (how = "files" => root # None))
        => P!Look \in P!Reviewed
  <2>. SUFFICES ASSUME at \in {"resolve",
                         "wait"} \/ (running /\ (how = "files" => root # None))
                PROVE  P!Look \in P!Reviewed
    OBVIOUS
  <2>1. packages \in 0..MaxEdits["patches"] /\ source \in P!Bytes
          /\ how \in {"apt", "dnf", "files"}
    BY DEF P!TypeOK
  <2>2. how = "files" => root \in P!Bytes
    BY DEF CopiesFit, PlacesFit
  <2>3. [f \in Files |-> 0] \in P!Bytes
    BY DEF P!SettingOK, P!Bytes
  <2>. QED  BY <2>1, <2>2, <2>3 DEF P!Look, P!Reviewed
<1>1. P!TypeOK'
  <2>1. plan' \in P!Reviewed \cup {None}
    BY <1>a DEF P!TypeOK
  <2>. QED  BY <2>1 DEF P!TypeOK, P!Places
<1>2. PlacesFit'  BY DEF P!SettingOK, P!TypeOK, PlacesFit, P!Staged, P!Reviewed
<1>3. PlanKnown'
  BY DEF P!SettingOK, P!TypeOK, PlacesFit, PlanKnown, CopiesFit, P!Bytes, P!Reviewed, P!Look
<1>4. CopiesFit'  BY DEF P!SettingOK, P!TypeOK, PlacesFit, CopiesFit, P!Empty, P!Bytes,
                     P!Staged
<1>5. SentReviewed'
  BY DEF P!SettingOK, P!TypeOK, PlacesFit, CopiesFit, SentReviewed, P!Empty, P!Bytes,
     P!Reviewed, PlanKnown
<1>6. LookHolds'  BY DEF P!SettingOK, P!TypeOK, PlacesFit, LookHolds, P!Unchanged, P!Look
<1>7. DirectoriesFit'  BY DEF P!SettingOK, P!TypeOK, PlacesFit, DirectoriesFit
<1>8. P!AppliedIsReviewed'
  BY DEF P!SettingOK, P!TypeOK, PlacesFit, PlanKnown, CopiesFit, SentReviewed,
     LookHolds, P!Unchanged, P!AppliedIsReviewed, P!Reviewed, P!Look
<1>9. UnreadFails'  BY DEF P!TypeOK, PlacesFit, UnreadFails, P!Done
<1>. QED  BY <1>1, <1>2, <1>3, <1>4, <1>5, <1>6, <1>7, <1>8, <1>9

LEMMA PatchesInstallKeeps ==
  ASSUME P!SettingOK, PatchesInv, P!Install
  PROVE  PatchesInv'
<1>. USE DEF PatchesInv, P!Install, P!bounds
<1>1. P!TypeOK'
  BY DEF P!SettingOK, P!TypeOK, PlacesFit, PlanKnown, CopiesFit, P!Places, P!Bytes,
     P!Empty, P!Staged, P!Reviewed
<1>2. PlacesFit'  BY DEF P!SettingOK, P!TypeOK, PlacesFit, P!Staged, P!Reviewed
<1>3. PlanKnown'
  BY DEF P!SettingOK, P!TypeOK, PlacesFit, PlanKnown, CopiesFit, P!Bytes, P!Reviewed, P!Look
<1>4. CopiesFit'  BY DEF P!SettingOK, P!TypeOK, PlacesFit, CopiesFit, P!Empty, P!Bytes,
                     P!Staged
<1>5. SentReviewed'
  BY DEF P!SettingOK, P!TypeOK, PlacesFit, CopiesFit, SentReviewed, P!Empty, P!Bytes,
     P!Reviewed, PlanKnown
<1>6. LookHolds'  BY DEF P!SettingOK, P!TypeOK, PlacesFit, LookHolds, P!Unchanged, P!Look
<1>7. DirectoriesFit'  BY DEF P!SettingOK, P!TypeOK, PlacesFit, DirectoriesFit
<1>8. P!AppliedIsReviewed'
  BY DEF P!SettingOK, P!TypeOK, PlacesFit, PlanKnown, CopiesFit, SentReviewed,
     LookHolds, P!Unchanged, P!AppliedIsReviewed, P!Reviewed, P!Look
<1>9. UnreadFails'  BY DEF P!TypeOK, PlacesFit, UnreadFails, P!Done
<1>. QED  BY <1>1, <1>2, <1>3, <1>4, <1>5, <1>6, <1>7, <1>8, <1>9

LEMMA PatchesInstallEndsKeeps ==
  ASSUME P!SettingOK, PatchesInv, P!InstallEnds
  PROVE  PatchesInv'
<1>. USE DEF PatchesInv, P!InstallEnds, P!Raise, P!Done, P!bounds
<1>a. at \in {"resolve", "wait"} \/ (running /\ (how = "files" => root # None))
        => P!Look \in P!Reviewed
  <2>. SUFFICES ASSUME at \in {"resolve",
                         "wait"} \/ (running /\ (how = "files" => root # None))
                PROVE  P!Look \in P!Reviewed
    OBVIOUS
  <2>1. packages \in 0..MaxEdits["patches"] /\ source \in P!Bytes
          /\ how \in {"apt", "dnf", "files"}
    BY DEF P!TypeOK
  <2>2. how = "files" => root \in P!Bytes
    BY DEF CopiesFit, PlacesFit
  <2>3. [f \in Files |-> 0] \in P!Bytes
    BY DEF P!SettingOK, P!Bytes
  <2>. QED  BY <2>1, <2>2, <2>3 DEF P!Look, P!Reviewed
<1>1. P!TypeOK'
  <2>1. installed' \in P!Reviewed \cup {None}
    BY <1>a DEF P!TypeOK, PlacesFit
  <2>. QED  BY <2>1 DEF P!TypeOK, P!Places
<1>2. PlacesFit'  BY DEF P!SettingOK, P!TypeOK, PlacesFit, P!Staged, P!Reviewed
<1>3. PlanKnown'
  BY DEF P!SettingOK, P!TypeOK, PlacesFit, PlanKnown, CopiesFit, P!Bytes, P!Reviewed, P!Look
<1>4. CopiesFit'  BY DEF P!SettingOK, P!TypeOK, PlacesFit, CopiesFit, P!Empty, P!Bytes,
                     P!Staged
<1>5. SentReviewed'
  BY DEF P!SettingOK, P!TypeOK, PlacesFit, CopiesFit, SentReviewed, P!Empty, P!Bytes,
     P!Reviewed, PlanKnown
<1>6. LookHolds'  BY DEF P!SettingOK, P!TypeOK, PlacesFit, LookHolds, P!Unchanged, P!Look
<1>7. DirectoriesFit'  BY DEF P!SettingOK, P!TypeOK, PlacesFit, DirectoriesFit
<1>8. P!AppliedIsReviewed'
  BY DEF P!SettingOK, P!TypeOK, PlacesFit, PlanKnown, CopiesFit, SentReviewed,
     LookHolds, P!Unchanged, P!AppliedIsReviewed, P!Reviewed, P!Look
<1>9. UnreadFails'  BY DEF P!TypeOK, PlacesFit, UnreadFails, P!Done
<1>. QED  BY <1>1, <1>2, <1>3, <1>4, <1>5, <1>6, <1>7, <1>8, <1>9

LEMMA PatchesTimeOutKeeps ==
  ASSUME P!SettingOK, PatchesInv, P!TimeOut
  PROVE  PatchesInv'
<1>. USE DEF PatchesInv, P!TimeOut, P!Raise, P!Done, P!Fault, P!host
<1>1. P!TypeOK'
  BY DEF P!SettingOK, P!TypeOK, PlacesFit, PlanKnown, CopiesFit, P!Places, P!Bytes,
     P!Empty, P!Staged, P!Reviewed
<1>2. PlacesFit'  BY DEF P!SettingOK, P!TypeOK, PlacesFit, P!Staged, P!Reviewed
<1>3. PlanKnown'
  BY DEF P!SettingOK, P!TypeOK, PlacesFit, PlanKnown, CopiesFit, P!Bytes, P!Reviewed, P!Look
<1>4. CopiesFit'  BY DEF P!SettingOK, P!TypeOK, PlacesFit, CopiesFit, P!Empty, P!Bytes,
                     P!Staged
<1>5. SentReviewed'
  BY DEF P!SettingOK, P!TypeOK, PlacesFit, CopiesFit, SentReviewed, P!Empty, P!Bytes,
     P!Reviewed, PlanKnown
<1>6. LookHolds'  BY DEF P!SettingOK, P!TypeOK, PlacesFit, LookHolds, P!Unchanged, P!Look
<1>7. DirectoriesFit'  BY DEF P!SettingOK, P!TypeOK, PlacesFit, DirectoriesFit
<1>8. P!AppliedIsReviewed'
  BY DEF P!SettingOK, P!TypeOK, PlacesFit, PlanKnown, CopiesFit, SentReviewed,
     LookHolds, P!Unchanged, P!AppliedIsReviewed, P!Reviewed, P!Look
<1>9. UnreadFails'  BY DEF P!TypeOK, PlacesFit, UnreadFails, P!Done
<1>. QED  BY <1>1, <1>2, <1>3, <1>4, <1>5, <1>6, <1>7, <1>8, <1>9

LEMMA PatchesCleanKeeps ==
  ASSUME P!SettingOK, PatchesInv, P!Clean
  PROVE  PatchesInv'
<1>. USE DEF PatchesInv, P!Clean, P!host, P!bounds
<1>1. P!TypeOK'
  BY DEF P!SettingOK, P!TypeOK, PlacesFit, PlanKnown, CopiesFit, P!Places, P!Bytes,
     P!Empty, P!Staged, P!Reviewed
<1>2. PlacesFit'  BY DEF P!SettingOK, P!TypeOK, PlacesFit, P!Staged, P!Reviewed
<1>3. PlanKnown'
  BY DEF P!SettingOK, P!TypeOK, PlacesFit, PlanKnown, CopiesFit, P!Bytes, P!Reviewed, P!Look
<1>4. CopiesFit'  BY DEF P!SettingOK, P!TypeOK, PlacesFit, CopiesFit, P!Empty, P!Bytes,
                     P!Staged
<1>5. SentReviewed'
  BY DEF P!SettingOK, P!TypeOK, PlacesFit, CopiesFit, SentReviewed, P!Empty, P!Bytes,
     P!Reviewed, PlanKnown
<1>6. LookHolds'  BY DEF P!SettingOK, P!TypeOK, PlacesFit, LookHolds, P!Unchanged, P!Look
<1>7. DirectoriesFit'  BY DEF P!SettingOK, P!TypeOK, PlacesFit, DirectoriesFit
<1>8. P!AppliedIsReviewed'
  BY DEF P!SettingOK, P!TypeOK, PlacesFit, PlanKnown, CopiesFit, SentReviewed,
     LookHolds, P!Unchanged, P!AppliedIsReviewed, P!Reviewed, P!Look
<1>9. UnreadFails'  BY DEF P!TypeOK, PlacesFit, UnreadFails, P!Done
<1>. QED  BY <1>1, <1>2, <1>3, <1>4, <1>5, <1>6, <1>7, <1>8, <1>9

LEMMA PatchesUnstageKeeps ==
  ASSUME P!SettingOK, PatchesInv, P!Unstage
  PROVE  PatchesInv'
<1>. USE DEF PatchesInv, P!Unstage, P!Done, P!host, P!bounds
<1>1. P!TypeOK'
  BY DEF P!SettingOK, P!TypeOK, PlacesFit, PlanKnown, CopiesFit, P!Places, P!Bytes,
     P!Empty, P!Staged, P!Reviewed
<1>2. PlacesFit'  BY DEF P!SettingOK, P!TypeOK, PlacesFit, P!Staged, P!Reviewed
<1>3. PlanKnown'
  BY DEF P!SettingOK, P!TypeOK, PlacesFit, PlanKnown, CopiesFit, P!Bytes, P!Reviewed, P!Look
<1>4. CopiesFit'  BY DEF P!SettingOK, P!TypeOK, PlacesFit, CopiesFit, P!Empty, P!Bytes,
                     P!Staged
<1>5. SentReviewed'
  BY DEF P!SettingOK, P!TypeOK, PlacesFit, CopiesFit, SentReviewed, P!Empty, P!Bytes,
     P!Reviewed, PlanKnown
<1>6. LookHolds'  BY DEF P!SettingOK, P!TypeOK, PlacesFit, LookHolds, P!Unchanged, P!Look
<1>7. DirectoriesFit'  BY DEF P!SettingOK, P!TypeOK, PlacesFit, DirectoriesFit
<1>8. P!AppliedIsReviewed'
  BY DEF P!SettingOK, P!TypeOK, PlacesFit, PlanKnown, CopiesFit, SentReviewed,
     LookHolds, P!Unchanged, P!AppliedIsReviewed, P!Reviewed, P!Look
<1>9. UnreadFails'  BY DEF P!TypeOK, PlacesFit, UnreadFails, P!Done
<1>. QED  BY <1>1, <1>2, <1>3, <1>4, <1>5, <1>6, <1>7, <1>8, <1>9

LEMMA PatchesDisconnectKeeps ==
  ASSUME P!SettingOK, PatchesInv, P!Disconnect
  PROVE  PatchesInv'
<1>. USE DEF PatchesInv, P!Disconnect, P!Done, P!Fault, P!host
<1>1. P!TypeOK'
  BY DEF P!SettingOK, P!TypeOK, PlacesFit, PlanKnown, CopiesFit, P!Places, P!Bytes,
     P!Empty, P!Staged, P!Reviewed
<1>2. PlacesFit'  BY DEF P!SettingOK, P!TypeOK, PlacesFit, P!Staged, P!Reviewed
<1>3. PlanKnown'
  BY DEF P!SettingOK, P!TypeOK, PlacesFit, PlanKnown, CopiesFit, P!Bytes, P!Reviewed, P!Look
<1>4. CopiesFit'  BY DEF P!SettingOK, P!TypeOK, PlacesFit, CopiesFit, P!Empty, P!Bytes,
                     P!Staged
<1>5. SentReviewed'
  BY DEF P!SettingOK, P!TypeOK, PlacesFit, CopiesFit, SentReviewed, P!Empty, P!Bytes,
     P!Reviewed, PlanKnown
<1>6. LookHolds'  BY DEF P!SettingOK, P!TypeOK, PlacesFit, LookHolds, P!Unchanged, P!Look
<1>7. DirectoriesFit'  BY DEF P!SettingOK, P!TypeOK, PlacesFit, DirectoriesFit
<1>8. P!AppliedIsReviewed'
  BY DEF P!SettingOK, P!TypeOK, PlacesFit, PlanKnown, CopiesFit, SentReviewed,
     LookHolds, P!Unchanged, P!AppliedIsReviewed, P!Reviewed, P!Look
<1>9. UnreadFails'  BY DEF P!TypeOK, PlacesFit, UnreadFails, P!Done
<1>. QED  BY <1>1, <1>2, <1>3, <1>4, <1>5, <1>6, <1>7, <1>8, <1>9

LEMMA PatchesEditKeeps ==
  ASSUME P!SettingOK, PatchesInv, P!Edit
  PROVE  PatchesInv'
<1>. USE DEF PatchesInv, P!Edit
<1>1. P!TypeOK'
  BY DEF P!SettingOK, P!TypeOK, PlacesFit, PlanKnown, CopiesFit, P!Places, P!Bytes,
     P!Empty, P!Staged, P!Reviewed
<1>2. PlacesFit'  BY DEF P!SettingOK, P!TypeOK, PlacesFit, P!Staged, P!Reviewed
<1>3. PlanKnown'
  BY DEF P!SettingOK, P!TypeOK, PlacesFit, PlanKnown, CopiesFit, P!Bytes, P!Reviewed, P!Look
<1>4. CopiesFit'  BY DEF P!SettingOK, P!TypeOK, PlacesFit, CopiesFit, P!Empty, P!Bytes,
                     P!Staged
<1>5. SentReviewed'
  BY DEF P!SettingOK, P!TypeOK, PlacesFit, CopiesFit, SentReviewed, P!Empty, P!Bytes,
     P!Reviewed, PlanKnown
<1>6. LookHolds'  BY DEF P!SettingOK, P!TypeOK, PlacesFit, LookHolds, P!Unchanged, P!Look
<1>7. DirectoriesFit'  BY DEF P!SettingOK, P!TypeOK, PlacesFit, DirectoriesFit
<1>8. P!AppliedIsReviewed'
  BY DEF P!SettingOK, P!TypeOK, PlacesFit, PlanKnown, CopiesFit, SentReviewed,
     LookHolds, P!Unchanged, P!AppliedIsReviewed, P!Reviewed, P!Look
<1>9. UnreadFails'  BY DEF P!TypeOK, PlacesFit, UnreadFails, P!Done
<1>. QED  BY <1>1, <1>2, <1>3, <1>4, <1>5, <1>6, <1>7, <1>8, <1>9

LEMMA PatchesSwapKeeps ==
  ASSUME P!SettingOK, PatchesInv, NEW f \in Files, P!Swap(f)
  PROVE  PatchesInv'
<1>. USE DEF PatchesInv, P!Swap
<1>1. P!TypeOK'
  <2>1. swaps + 1 \in 0..MaxSwaps /\ swaps' \in 0..MaxSwaps
    BY DEF P!SettingOK, P!TypeOK
  <2>2. source' \in P!Bytes /\ upload' \in P!Staged
    BY <2>1 DEF P!TypeOK, P!Bytes, P!Staged
  <2>. QED  BY <2>1, <2>2 DEF P!TypeOK
<1>2. PlacesFit'  BY DEF P!SettingOK, P!TypeOK, PlacesFit, P!Staged, P!Reviewed
<1>3. PlanKnown'
  BY DEF P!SettingOK, P!TypeOK, PlacesFit, PlanKnown, CopiesFit, P!Bytes, P!Reviewed, P!Look
<1>4. CopiesFit'  BY DEF P!SettingOK, P!TypeOK, PlacesFit, CopiesFit, P!Empty, P!Bytes,
                     P!Staged
<1>5. SentReviewed'
  BY DEF P!SettingOK, P!TypeOK, PlacesFit, CopiesFit, SentReviewed, P!Empty, P!Bytes,
     P!Reviewed, PlanKnown
<1>6. LookHolds'
  <2>1. (at = "install" \/ running) /\ ~raced' => ~raced
          /\ (how = "dnf" => source' = source)
    BY Zenon
  <2>. QED  BY <2>1 DEF LookHolds, P!Unchanged, P!TypeOK
<1>7. DirectoriesFit'  BY DEF P!SettingOK, P!TypeOK, PlacesFit, DirectoriesFit
<1>8. P!AppliedIsReviewed'
  BY DEF P!SettingOK, P!TypeOK, PlacesFit, PlanKnown, CopiesFit, SentReviewed,
     LookHolds, P!Unchanged, P!AppliedIsReviewed, P!Reviewed, P!Look
<1>9. UnreadFails'  BY DEF P!TypeOK, PlacesFit, UnreadFails, P!Done
<1>. QED  BY <1>1, <1>2, <1>3, <1>4, <1>5, <1>6, <1>7, <1>8, <1>9

LEMMA PatchesStep == P!SettingOK /\ PatchesInv /\ [P!Next]_(P!vars) => PatchesInv'
<1>. SUFFICES ASSUME P!SettingOK, PatchesInv, [P!Next]_(P!vars) PROVE PatchesInv'
  OBVIOUS
<1>1. CASE P!Begin \/ P!Review \/ P!MakeUpload \/ P!MakeRoot \/ P!Send
  BY <1>1, PatchesBeginKeeps, PatchesReviewKeeps, PatchesMakeUploadKeeps,
     PatchesMakeRootKeeps, PatchesSendKeeps
<1>2. CASE \E f \in Files : P!Copy(f) \/ P!Swap(f)
  BY <1>2, PatchesCopyKeeps, PatchesSwapKeeps
<1>3. CASE P!Resolve \/ P!Install \/ P!InstallEnds \/ P!TimeOut
  BY <1>3, PatchesResolveKeeps, PatchesInstallKeeps, PatchesInstallEndsKeeps,
     PatchesTimeOutKeeps
<1>4. CASE P!Clean \/ P!Unstage \/ P!Disconnect \/ P!Edit
  BY <1>4, PatchesCleanKeeps, PatchesUnstageKeeps, PatchesDisconnectKeeps, PatchesEditKeeps
<1>5. CASE UNCHANGED P!vars
  <2>. USE <1>5 DEF P!vars, PatchesInv
  <2>1. P!TypeOK' /\ PlacesFit' /\ PlanKnown' /\ CopiesFit'
    BY DEF P!TypeOK, PlacesFit, PlanKnown, CopiesFit
  <2>2. SentReviewed' /\ LookHolds' /\ DirectoriesFit' /\ UnreadFails'
          /\ P!AppliedIsReviewed'
    BY DEF SentReviewed, LookHolds, P!Unchanged, DirectoriesFit, UnreadFails,
       P!AppliedIsReviewed
  <2>. QED  BY <2>1, <2>2
<1>. QED  BY <1>1, <1>2, <1>3, <1>4, <1>5 DEF P!Next

LEMMA PatchesRuns ==
  ASSUME [OperationsNext]_allVars, scenario' = "patches"
  PROVE  scenario = "patches" /\ [P!Next]_(P!vars)
<1>1. CASE OperationsNext
  BY <1>1 DEF OperationsNext
<1>2. CASE UNCHANGED allVars
  BY <1>2 DEF allVars, shared, ofPatches, P!vars
<1>. QED  BY <1>1, <1>2

LEMMA PatchesAlways == OperationsSpec => [](scenario = "patches" => PatchesInv)
<1>1. OperationsInit => (scenario = "patches" => PatchesInv)
  BY SettingsOK, PatchesInit DEF OperationsInit
<1>2. (scenario = "patches" => PatchesInv) /\ [OperationsNext]_allVars
        => (scenario = "patches" => PatchesInv)'
  BY SettingsOK, PatchesRuns, PatchesStep
<1>. QED  BY <1>1, <1>2, PTL DEF OperationsSpec

(* For any files and bounds: what is installed was reviewed, the same files *)
(* on the same packages, but for a change between the last look and the end *)
(* of the package manager, and without a fault every staging directory that *)
(* SERVER could name is gone when the job is over; where it could not read  *)
(* the name, an empty directory stays and the job fails.                    *)
THEOREM PatchesCorrect == OperationsSpec => []PatchesHold
<1>1. (scenario = "patches" => PatchesInv) => PatchesHold
  BY DEF PatchesHold, P!PatchesHold, PatchesInv, P!NoStagingLeft, DirectoriesFit, UnreadFails, PlacesFit, P!TypeOK
<1>. QED  BY <1>1, PatchesAlways, PTL

-------------------------------------------------------------------------------
(* Commands                                                                 *)

(* An attempt that asks has printed nothing; one that runs has printed its  *)
(* marker; one that has ended printed everything, or never became root.     *)
Attempt ==
  /\ way = "none" <=> process = "none"
  /\ way = "none" => starts = 0 /\ printed = 0 /\ result = "none" /\ ~overtaken
  /\ process = "asking" => printed = 0 /\ way # "direct"
  /\ process = "running" => printed >= R!Marker
  /\ process = "ended" => printed = length + R!Marker \/ (way # "direct" /\ printed = 0)
  /\ printed <= length + R!Marker
  /\ status => process = "ended"
  /\ result \in {"none", "output"} => got <= Limit

(* The starts that the attempts so far can have made.                       *)
Starts ==
  /\ way = "direct" => starts = 1
  /\ way = "sudo" => starts <= 1
  /\ process = "asking" => starts <= (IF way = "su" THEN 1 ELSE 0)
  /\ way # "none" /\ printed >= R!Marker => starts >= 1
  /\ ~overtaken /\ printed = 0 /\ way # "direct" => starts = 0

RemoteInv == R!TypeOK /\ Attempt /\ Starts /\ R!OutputIsWhole /\ R!StartsOnceIfRead

(* The initial states *)

LEMMA RemoteInit == R!SettingOK /\ R!Init => RemoteInv
<1>. SUFFICES ASSUME R!SettingOK, R!Init PROVE RemoteInv
  OBVIOUS
<1>1. R!TypeOK
  <2>1. printed \in 0..(Most + 1) /\ arrived \in 0..printed /\ got \in 0..arrived
          /\ starts \in 0..2
    BY DEF R!SettingOK, R!Init
  <2>. QED  BY <2>1 DEF R!Init, R!TypeOK, R!Ways, R!Results
<1>2. Attempt /\ Starts /\ R!OutputIsWhole /\ R!StartsOnceIfRead
  BY DEF R!SettingOK, R!Init, Attempt, Starts, R!OutputIsWhole, R!StartsOnceIfRead,
     R!StartsOnce, R!Marker
<1>. QED  BY <1>1, <1>2 DEF RemoteInv

(* The steps *)

LEMMA RemoteCallKeeps ==
  ASSUME R!SettingOK, RemoteInv, R!Call
  PROVE  RemoteInv'
<1>. USE DEF RemoteInv, R!Call, R!Open, R!setting
<1>1. R!TypeOK'
  <2>1. printed' \in 0..(Most + 1) /\ arrived' \in 0..printed' /\ got' \in 0..arrived'
    BY DEF R!SettingOK, R!TypeOK, R!Marker, Attempt, R!Finished
  <2>2. starts' \in 0..2
    BY DEF R!TypeOK, Starts, Attempt, R!Marker, R!Ways, R!Finished
  <2>3. /\ login' \in {"root", "user"} /\ may' \in SUBSET {"sudo", "su"}
             /\ rootPassword' \in BOOLEAN
        /\ length' \in 0..Most
    BY DEF R!TypeOK
  <2>4. /\ way' \in R!Ways \cup {"none"}
             /\ process' \in {"none", "asking", "running", "ended"}
        /\ status' \in BOOLEAN /\ overtaken' \in BOOLEAN /\ result' \in R!Results
    BY DEF R!TypeOK, R!Ways, R!Results
  <2>. QED  BY <2>1, <2>2, <2>3, <2>4 DEF R!TypeOK
<1>2. Attempt'  BY DEF R!SettingOK, R!TypeOK, R!Marker, Attempt, R!Ways, R!Finished
<1>3. Starts'  BY DEF R!SettingOK, R!TypeOK, R!Marker, Attempt, Starts, R!Ways, R!Finished
<1>4. R!OutputIsWhole'
  BY DEF R!SettingOK, R!TypeOK, R!Marker, Attempt, Starts, R!OutputIsWhole, R!Finished
<1>5. R!StartsOnceIfRead'
  BY DEF R!SettingOK, R!TypeOK, R!Marker, Attempt, Starts, R!StartsOnceIfRead,
     R!StartsOnce, R!Ways, R!Finished
<1>. QED  BY <1>1, <1>2, <1>3, <1>4, <1>5

LEMMA RemoteBecomeRootKeeps ==
  ASSUME R!SettingOK, RemoteInv, R!BecomeRoot
  PROVE  RemoteInv'
<1>. USE DEF RemoteInv, R!BecomeRoot, R!setting
<1>1. R!TypeOK'
  <2>1. printed' \in 0..(Most + 1) /\ arrived' \in 0..printed' /\ got' \in 0..arrived'
    BY DEF R!SettingOK, R!TypeOK, R!Marker, Attempt, R!Finished
  <2>2. starts' \in 0..2
    BY DEF R!TypeOK, Starts, Attempt, R!Marker, R!Ways, R!Finished
  <2>3. /\ login' \in {"root", "user"} /\ may' \in SUBSET {"sudo", "su"}
             /\ rootPassword' \in BOOLEAN
        /\ length' \in 0..Most
    BY DEF R!TypeOK
  <2>4. /\ way' \in R!Ways \cup {"none"}
             /\ process' \in {"none", "asking", "running", "ended"}
        /\ status' \in BOOLEAN /\ overtaken' \in BOOLEAN /\ result' \in R!Results
    BY DEF R!TypeOK, R!Ways, R!Results
  <2>. QED  BY <2>1, <2>2, <2>3, <2>4 DEF R!TypeOK
<1>2. Attempt'  BY DEF R!SettingOK, R!TypeOK, R!Marker, Attempt, R!Ways, R!Finished
<1>3. Starts'  BY DEF R!SettingOK, R!TypeOK, R!Marker, Attempt, Starts, R!Ways, R!Finished
<1>4. R!OutputIsWhole'
  BY DEF R!SettingOK, R!TypeOK, R!Marker, Attempt, Starts, R!OutputIsWhole, R!Finished
<1>5. R!StartsOnceIfRead'
  BY DEF R!SettingOK, R!TypeOK, R!Marker, Attempt, Starts, R!StartsOnceIfRead,
     R!StartsOnce, R!Ways, R!Finished
<1>. QED  BY <1>1, <1>2, <1>3, <1>4, <1>5

LEMMA RemoteWriteKeeps ==
  ASSUME R!SettingOK, RemoteInv, R!Write
  PROVE  RemoteInv'
<1>. USE DEF RemoteInv, R!Write, R!setting
<1>1. R!TypeOK'
  <2>1. printed' \in 0..(Most + 1) /\ arrived' \in 0..printed' /\ got' \in 0..arrived'
    BY DEF R!SettingOK, R!TypeOK, R!Marker, Attempt, R!Finished
  <2>2. starts' \in 0..2
    BY DEF R!TypeOK, Starts, Attempt, R!Marker, R!Ways, R!Finished
  <2>3. /\ login' \in {"root", "user"} /\ may' \in SUBSET {"sudo", "su"}
             /\ rootPassword' \in BOOLEAN
        /\ length' \in 0..Most
    BY DEF R!TypeOK
  <2>4. /\ way' \in R!Ways \cup {"none"}
             /\ process' \in {"none", "asking", "running", "ended"}
        /\ status' \in BOOLEAN /\ overtaken' \in BOOLEAN /\ result' \in R!Results
    BY DEF R!TypeOK, R!Ways, R!Results
  <2>. QED  BY <2>1, <2>2, <2>3, <2>4 DEF R!TypeOK
<1>2. Attempt'  BY DEF R!SettingOK, R!TypeOK, R!Marker, Attempt, R!Ways, R!Finished
<1>3. Starts'  BY DEF R!SettingOK, R!TypeOK, R!Marker, Attempt, Starts, R!Ways, R!Finished
<1>4. R!OutputIsWhole'
  BY DEF R!SettingOK, R!TypeOK, R!Marker, Attempt, Starts, R!OutputIsWhole, R!Finished
<1>5. R!StartsOnceIfRead'
  BY DEF R!SettingOK, R!TypeOK, R!Marker, Attempt, Starts, R!StartsOnceIfRead,
     R!StartsOnce, R!Ways, R!Finished
<1>. QED  BY <1>1, <1>2, <1>3, <1>4, <1>5

LEMMA RemoteExitKeeps ==
  ASSUME R!SettingOK, RemoteInv, R!Exit
  PROVE  RemoteInv'
<1>. USE DEF RemoteInv, R!Exit, R!setting
<1>1. R!TypeOK'  BY DEF R!SettingOK, R!TypeOK, R!Marker, R!Ways, R!Results, Attempt,
                    Starts, R!Finished
<1>2. Attempt'  BY DEF R!SettingOK, R!TypeOK, R!Marker, Attempt, R!Ways, R!Finished
<1>3. Starts'  BY DEF R!SettingOK, R!TypeOK, R!Marker, Attempt, Starts, R!Ways, R!Finished
<1>4. R!OutputIsWhole'
  BY DEF R!SettingOK, R!TypeOK, R!Marker, Attempt, Starts, R!OutputIsWhole, R!Finished
<1>5. R!StartsOnceIfRead'
  BY DEF R!SettingOK, R!TypeOK, R!Marker, Attempt, Starts, R!StartsOnceIfRead,
     R!StartsOnce, R!Ways, R!Finished
<1>. QED  BY <1>1, <1>2, <1>3, <1>4, <1>5

LEMMA RemoteArriveKeeps ==
  ASSUME R!SettingOK, RemoteInv, R!Arrive
  PROVE  RemoteInv'
<1>. USE DEF RemoteInv, R!Arrive, R!setting
<1>1. R!TypeOK'  BY DEF R!SettingOK, R!TypeOK, R!Marker, R!Ways, R!Results, Attempt,
                    Starts, R!Finished
<1>2. Attempt'  BY DEF R!SettingOK, R!TypeOK, R!Marker, Attempt, R!Ways, R!Finished
<1>3. Starts'  BY DEF R!SettingOK, R!TypeOK, R!Marker, Attempt, Starts, R!Ways, R!Finished
<1>4. R!OutputIsWhole'
  BY DEF R!SettingOK, R!TypeOK, R!Marker, Attempt, Starts, R!OutputIsWhole, R!Finished
<1>5. R!StartsOnceIfRead'
  BY DEF R!SettingOK, R!TypeOK, R!Marker, Attempt, Starts, R!StartsOnceIfRead,
     R!StartsOnce, R!Ways, R!Finished
<1>. QED  BY <1>1, <1>2, <1>3, <1>4, <1>5

LEMMA RemoteArriveStatusKeeps ==
  ASSUME R!SettingOK, RemoteInv, R!ArriveStatus
  PROVE  RemoteInv'
<1>. USE DEF RemoteInv, R!ArriveStatus, R!setting
<1>1. R!TypeOK'  BY DEF R!SettingOK, R!TypeOK, R!Marker, R!Ways, R!Results, Attempt,
                    Starts, R!Finished
<1>2. Attempt'  BY DEF R!SettingOK, R!TypeOK, R!Marker, Attempt, R!Ways, R!Finished
<1>3. Starts'  BY DEF R!SettingOK, R!TypeOK, R!Marker, Attempt, Starts, R!Ways, R!Finished
<1>4. R!OutputIsWhole'
  BY DEF R!SettingOK, R!TypeOK, R!Marker, Attempt, Starts, R!OutputIsWhole, R!Finished
<1>5. R!StartsOnceIfRead'
  BY DEF R!SettingOK, R!TypeOK, R!Marker, Attempt, Starts, R!StartsOnceIfRead,
     R!StartsOnce, R!Ways, R!Finished
<1>. QED  BY <1>1, <1>2, <1>3, <1>4, <1>5

LEMMA RemoteReadKeeps ==
  ASSUME R!SettingOK, RemoteInv, R!Read
  PROVE  RemoteInv'
<1>. USE DEF RemoteInv, R!Read, R!Close, R!setting
<1>1. R!TypeOK'
  <2>1. printed' \in 0..(Most + 1) /\ arrived' \in 0..printed' /\ got' \in 0..arrived'
    BY DEF R!SettingOK, R!TypeOK, R!Marker, Attempt, R!Finished
  <2>2. starts' \in 0..2
    BY DEF R!TypeOK, Starts, Attempt, R!Marker, R!Ways, R!Finished
  <2>3. /\ login' \in {"root", "user"} /\ may' \in SUBSET {"sudo", "su"}
             /\ rootPassword' \in BOOLEAN
        /\ length' \in 0..Most
    BY DEF R!TypeOK
  <2>4. /\ way' \in R!Ways \cup {"none"}
             /\ process' \in {"none", "asking", "running", "ended"}
        /\ status' \in BOOLEAN /\ overtaken' \in BOOLEAN /\ result' \in R!Results
    BY DEF R!TypeOK, R!Ways, R!Results
  <2>. QED  BY <2>1, <2>2, <2>3, <2>4 DEF R!TypeOK
<1>2. Attempt'  BY DEF R!SettingOK, R!TypeOK, R!Marker, Attempt, R!Ways, R!Finished
<1>3. Starts'  BY DEF R!SettingOK, R!TypeOK, R!Marker, Attempt, Starts, R!Ways, R!Finished
<1>4. R!OutputIsWhole'
  BY DEF R!SettingOK, R!TypeOK, R!Marker, Attempt, Starts, R!OutputIsWhole, R!Finished
<1>5. R!StartsOnceIfRead'
  BY DEF R!SettingOK, R!TypeOK, R!Marker, Attempt, Starts, R!StartsOnceIfRead,
     R!StartsOnce, R!Ways, R!Finished
<1>. QED  BY <1>1, <1>2, <1>3, <1>4, <1>5

LEMMA RemoteTimeOutKeeps ==
  ASSUME R!SettingOK, RemoteInv, R!TimeOut
  PROVE  RemoteInv'
<1>. USE DEF RemoteInv, R!TimeOut, R!Close, R!setting
<1>1. R!TypeOK'  BY DEF R!SettingOK, R!TypeOK, R!Marker, R!Ways, R!Results, Attempt,
                    Starts, R!Finished
<1>2. Attempt'  BY DEF R!SettingOK, R!TypeOK, R!Marker, Attempt, R!Ways, R!Finished
<1>3. Starts'  BY DEF R!SettingOK, R!TypeOK, R!Marker, Attempt, Starts, R!Ways, R!Finished
<1>4. R!OutputIsWhole'
  BY DEF R!SettingOK, R!TypeOK, R!Marker, Attempt, Starts, R!OutputIsWhole, R!Finished
<1>5. R!StartsOnceIfRead'
  BY DEF R!SettingOK, R!TypeOK, R!Marker, Attempt, Starts, R!StartsOnceIfRead,
     R!StartsOnce, R!Ways, R!Finished
<1>. QED  BY <1>1, <1>2, <1>3, <1>4, <1>5

LEMMA RemoteConcludeDoneKeeps ==
  ASSUME R!SettingOK, RemoteInv, R!Conclude,
           got >= R!Marker \/ ~(way = "sudo" /\ rootPassword)
  PROVE  RemoteInv'
<1>. USE DEF RemoteInv, R!setting
<1>a. /\ UNCHANGED <<login, may, rootPassword, length, way, process, printed, arrived, got,
           status, starts>>
      /\ R!Finished /\ overtaken' = (overtaken \/ arrived < printed)
      /\ \/ got >= R!Marker /\ result' = "output"
         \/ result' = "no root"
  BY DEF R!Conclude, R!Close, R!setting
<1>1. R!TypeOK'
  <2>1. printed' \in 0..(Most + 1) /\ arrived' \in 0..printed' /\ got' \in 0..arrived'
    BY <1>a DEF R!SettingOK, R!TypeOK, R!Marker, Attempt, R!Finished
  <2>2. starts' \in 0..2
    BY <1>a DEF R!TypeOK, Starts, Attempt, R!Marker, R!Ways, R!Finished
  <2>3. /\ login' \in {"root", "user"} /\ may' \in SUBSET {"sudo", "su"}
             /\ rootPassword' \in BOOLEAN
        /\ length' \in 0..Most
    BY <1>a DEF R!TypeOK
  <2>4. /\ way' \in R!Ways \cup {"none"}
             /\ process' \in {"none", "asking", "running", "ended"}
        /\ status' \in BOOLEAN /\ overtaken' \in BOOLEAN /\ result' \in R!Results
    BY <1>a DEF R!TypeOK, R!Ways, R!Results
  <2>. QED  BY <2>1, <2>2, <2>3, <2>4 DEF R!TypeOK
<1>2. Attempt'  BY <1>a DEF R!SettingOK, R!TypeOK, R!Marker, Attempt, R!Ways, R!Finished
<1>3. Starts'  BY <1>a DEF R!SettingOK, R!TypeOK, R!Marker, Attempt, Starts, R!Ways,
                  R!Finished
<1>4. R!OutputIsWhole'
  <2>1. CASE result' = "output" /\ got >= R!Marker
    <3>1. starts >= 1 /\ got <= Limit
      BY <1>a, <2>1 DEF Starts, Attempt, R!Finished, R!TypeOK, R!SettingOK, R!Marker
    <3>0. ~overtaken' => ~(arrived < printed)
      BY <1>a, Zenon
    <3>0a. R!Finished /\ (status => process = "ended")
      BY <1>a DEF Attempt
    <3>0b. /\ ~(arrived < printed) => printed = got
           /\ (printed = length + R!Marker \/ (way # "direct" /\ printed = 0))
      BY <3>0a DEF Attempt, R!Finished, R!TypeOK, R!SettingOK
    <3>2. ~overtaken' => printed = got
            /\ (printed = length + R!Marker \/ (way # "direct" /\ printed = 0))
      BY <3>0, <3>0a, <3>0b
    <3>3. ~overtaken' => got = length + R!Marker
      BY <2>1, <3>2 DEF R!Marker
    <3>. QED  BY <1>a, <2>1, <3>1, <3>3 DEF R!OutputIsWhole, R!Marker
  <2>2. CASE result' = "no root"
    BY <2>2 DEF R!OutputIsWhole
  <2>. QED  BY <1>a, <2>1, <2>2
<1>5. R!StartsOnceIfRead'
  BY <1>a DEF R!SettingOK, R!TypeOK, R!Marker, Attempt, Starts, R!StartsOnceIfRead,
     R!StartsOnce, R!Ways, R!Finished
<1>. QED  BY <1>1, <1>2, <1>3, <1>4, <1>5

LEMMA RemoteConcludeSuKeeps ==
  ASSUME R!SettingOK, RemoteInv, R!Conclude, ~(got >= R!Marker), way = "sudo", rootPassword
  PROVE  RemoteInv'
<1>. USE DEF RemoteInv, R!setting
<1>a. /\ UNCHANGED <<login, may, rootPassword, length, starts, result>>
      /\ R!Finished /\ overtaken' = (overtaken \/ arrived < printed)
      /\ way' = "su" /\ process' = "asking"
      /\ printed' = 0 /\ arrived' = 0 /\ got' = 0 /\ status' = FALSE /\ got < 1
  BY DEF R!Conclude, R!Close, R!setting, R!Marker, R!TypeOK
<1>1. R!TypeOK'
  <2>1. printed' \in 0..(Most + 1) /\ arrived' \in 0..printed' /\ got' \in 0..arrived'
    BY <1>a DEF R!SettingOK, R!TypeOK, R!Marker, Attempt, R!Finished
  <2>2. starts' \in 0..2
    BY <1>a DEF R!TypeOK, Starts, Attempt, R!Marker, R!Ways, R!Finished
  <2>3. /\ login' \in {"root", "user"} /\ may' \in SUBSET {"sudo", "su"}
             /\ rootPassword' \in BOOLEAN
        /\ length' \in 0..Most
    BY <1>a DEF R!TypeOK
  <2>4. /\ way' \in R!Ways \cup {"none"}
             /\ process' \in {"none", "asking", "running", "ended"}
        /\ status' \in BOOLEAN /\ overtaken' \in BOOLEAN /\ result' \in R!Results
    BY <1>a DEF R!TypeOK, R!Ways, R!Results
  <2>. QED  BY <2>1, <2>2, <2>3, <2>4 DEF R!TypeOK
<1>2. Attempt'
  <2>1. R!Marker' = 1 /\ length \in Nat /\ 0 <= Limit
    BY <1>a DEF R!Marker, R!TypeOK, R!SettingOK
  <2>2. result' \in {"none", "output"} => got' <= Limit
    BY <1>a, <2>1
  <2>3. printed' <= length' + R!Marker'
    BY <1>a, <2>1
  <2>4. ~status' /\ process' = "asking" /\ way' = "su" /\ printed' = 0
    BY <1>a
  <2>5. way' # "none" /\ way' # "direct" /\ process' # "none" /\ process' # "running"
          /\ process' # "ended"
    BY <2>4
  <2>6. (way' = "none") <=> (process' = "none")
    BY <2>5
  <2>7. way' = "none" => starts' = 0 /\ printed' = 0 /\ result' = "none" /\ ~overtaken'
    BY <2>5
  <2>8. process' = "asking" => printed' = 0 /\ way' # "direct"
    BY <2>4, <2>5
  <2>9. /\ process' = "running" => printed' >= R!Marker'
        /\ process' = "ended"
             => printed' = length' + R!Marker' \/ (way' # "direct" /\ printed' = 0)
        /\ status' => process' = "ended"
    BY <2>4, <2>5
  <2>. QED  BY <2>2, <2>3, <2>6, <2>7, <2>8, <2>9 DEF Attempt, R!Marker
<1>3. Starts'
  <2>0. ~overtaken' => ~overtaken /\ ~(arrived < printed)
    BY <1>a, Zenon
  <2>1. /\ ~(arrived < printed) => printed = 0
        /\ starts' <= 1
    BY <1>a DEF R!Finished, R!TypeOK, R!SettingOK, Starts
  <2>2. ~overtaken' => starts' = 0
    BY <1>a, <2>0, <2>1 DEF Starts
  <2>3. way' = "su" /\ starts' <= 1 /\ ~(printed' >= R!Marker')
    BY <1>a, <2>1 DEF R!Marker
  <2>. QED  BY <2>2, <2>3 DEF Starts, R!Marker
<1>4. R!OutputIsWhole'
  BY <1>a DEF R!SettingOK, R!TypeOK, R!Marker, Attempt, Starts, R!OutputIsWhole, R!Finished
<1>5. R!StartsOnceIfRead'
  BY <1>a DEF R!SettingOK, R!TypeOK, R!Marker, Attempt, Starts, R!StartsOnceIfRead,
     R!StartsOnce, R!Ways, R!Finished
<1>. QED  BY <1>1, <1>2, <1>3, <1>4, <1>5

LEMMA RemoteStep == R!SettingOK /\ RemoteInv /\ [R!Next]_(R!vars) => RemoteInv'
<1>. SUFFICES ASSUME R!SettingOK, RemoteInv, [R!Next]_(R!vars) PROVE RemoteInv'
  OBVIOUS
<1>1. CASE R!Call
  BY <1>1, RemoteCallKeeps
<1>2. CASE R!BecomeRoot
  BY <1>2, RemoteBecomeRootKeeps
<1>3. CASE R!Write
  BY <1>3, RemoteWriteKeeps
<1>4. CASE R!Exit
  BY <1>4, RemoteExitKeeps
<1>5. CASE R!Arrive
  BY <1>5, RemoteArriveKeeps
<1>6. CASE R!ArriveStatus
  BY <1>6, RemoteArriveStatusKeeps
<1>7. CASE R!Read
  BY <1>7, RemoteReadKeeps
<1>8. CASE R!TimeOut
  BY <1>8, RemoteTimeOutKeeps
<1>9. CASE R!Conclude
  BY <1>9, RemoteConcludeDoneKeeps, RemoteConcludeSuKeeps
<1>10. CASE UNCHANGED R!vars
  <2>. USE <1>10 DEF R!vars, RemoteInv
  <2>1. R!TypeOK'
    BY DEF R!TypeOK
  <2>2. Attempt' /\ Starts' /\ R!OutputIsWhole' /\ R!StartsOnceIfRead'
    BY DEF Attempt, Starts, R!OutputIsWhole, R!StartsOnceIfRead, R!StartsOnce, R!Marker
  <2>. QED  BY <2>1, <2>2
<1>. QED  BY <1>1, <1>2, <1>3, <1>4, <1>5, <1>6, <1>7, <1>8, <1>9, <1>10 DEF R!Next

LEMMA RemoteRuns ==
  ASSUME [OperationsNext]_allVars, scenario' = "commands"
  PROVE  scenario = "commands" /\ [R!Next]_(R!vars)
<1>1. CASE OperationsNext
  BY <1>1 DEF OperationsNext
<1>2. CASE UNCHANGED allVars
  BY <1>2 DEF allVars, shared, ofCommands, R!vars
<1>. QED  BY <1>1, <1>2

LEMMA RemoteAlways == OperationsSpec => [](scenario = "commands" => RemoteInv)
<1>1. OperationsInit => (scenario = "commands" => RemoteInv)
  BY SettingsOK, RemoteInit DEF OperationsInit
<1>2. (scenario = "commands" => RemoteInv) /\ [OperationsNext]_allVars
        => (scenario = "commands" => RemoteInv)'
  BY SettingsOK, RemoteRuns, RemoteStep
<1>. QED  BY <1>1, <1>2, PTL DEF OperationsSpec

-------------------------------------------------------------------------------
(* Host keys                                                                *)

Registering == {"load", "decide", "copied", "replaced"}

(* One registers at a time.                                                 *)
HostKeysLockHeld == \A c \in Connections : at[c] \in Registering => lock = c

(* What a connection read of the file is still there.                       *)
SeenIsThere == \A c \in Connections, h \in Hosts : seen[c][h] # None => file[h] = seen[c][h]

(* The second look is current until the file is replaced, and a copy is     *)
(* made only for a host that is not in it.                                  *)
LookIsCurrent ==
  \A c \in Connections :
    /\ at[c] \in {"decide", "copied"} => seen[c] = file
    /\ at[c] = "copied" => file[HostOf[c]] = None

(* A registration is in the file before the session is told.                *)
ReplacedIsThere == \A c \in Connections : at[c] = "replaced" => file[HostOf[c]] = offers[c]

TrustInv ==
  H!TypeOK /\ HostKeysLockHeld /\ SeenIsThere /\ LookIsCurrent /\ ReplacedIsThere
    /\ H!SessionsAreTrusted

LEMMA HostKeysInit == H!SettingOK /\ H!Init => TrustInv
BY DEF H!SettingOK, H!Init, TrustInv, H!TypeOK, H!Known, H!Places, HostKeysLockHeld,
   Registering, SeenIsThere, LookIsCurrent, ReplacedIsThere, H!SessionsAreTrusted

(* A step that leaves the file alone and reads at most what is there keeps  *)
(* the keys; a replacement only adds one.                                   *)
LEMMA HostKeysReplaceKeeps ==
  ASSUME H!SettingOK, TrustInv, NEW c \in Connections, H!Replace(c)
  PROVE  TrustInv' /\ H!KeyIsKept
<1>1. /\ at[c] = "copied" /\ lock = c /\ seen[c] = file /\ file[HostOf[c]] = None
      /\ HostOf[c] \in Hosts /\ offers[c] \in PublicKeys
  BY DEF H!SettingOK, TrustInv, H!TypeOK, HostKeysLockHeld, Registering, LookIsCurrent,
     H!Replace
<1>2. file' = [file EXCEPT ![HostOf[c]] = offers[c]] /\ at' = [at EXCEPT ![c] = "replaced"]
  BY <1>1 DEF H!Replace, H!To
<1>3. UNCHANGED <<accepts, offers, crashes, seen, lock, registered>> /\ temps' = temps \ {c}
  BY DEF H!Replace, H!setting
<1>4. H!KeyIsKept
  BY <1>1, <1>2 DEF H!KeyIsKept, TrustInv, H!TypeOK, H!Known
<1>5. H!TypeOK'
  BY <1>1, <1>2, <1>3 DEF TrustInv, H!TypeOK, H!Known, H!Places
<1>6. HostKeysLockHeld'
  BY <1>1, <1>2, <1>3 DEF TrustInv, H!TypeOK, HostKeysLockHeld, Registering
<1>7. SeenIsThere'
  BY <1>1, <1>2, <1>3 DEF TrustInv, H!TypeOK, H!Known, SeenIsThere
<1>8. LookIsCurrent'
  <2>. SUFFICES ASSUME NEW d \in Connections, at'[d] \in {"decide", "copied"} PROVE FALSE
    BY DEF LookIsCurrent
  <2>1. d # c /\ at[d] = at'[d]
    BY <1>2 DEF TrustInv, H!TypeOK
  <2>. QED  BY <1>1, <2>1 DEF TrustInv, HostKeysLockHeld, Registering
<1>9. ReplacedIsThere' /\ H!SessionsAreTrusted'
  <2>1. ReplacedIsThere'
    <3>. SUFFICES ASSUME NEW d \in Connections, at'[d] = "replaced"
                  PROVE  file'[HostOf[d]] = offers[d]
      BY <1>3 DEF ReplacedIsThere
    <3>1. d = c
      BY <1>1, <1>2 DEF TrustInv, H!TypeOK, HostKeysLockHeld, Registering
    <3>. QED  BY <1>1, <1>2, <3>1 DEF TrustInv, H!TypeOK, H!Known
  <2>2. H!SessionsAreTrusted'
    <3>. SUFFICES ASSUME NEW d \in Connections, at'[d] = "connected" \/ d \in registered
                  PROVE  file'[HostOf[d]] = offers[d]
      BY <1>3 DEF H!SessionsAreTrusted
    <3>1. file[HostOf[d]] = offers[d] /\ offers[d] # None /\ HostOf[d] \in Hosts
      BY <1>2 DEF H!SettingOK, TrustInv, H!TypeOK, H!SessionsAreTrusted
    <3>. QED  BY <1>4, <3>1 DEF H!KeyIsKept
  <2>. QED  BY <2>1, <2>2
<1>. QED  BY <1>4, <1>5, <1>6, <1>7, <1>8, <1>9 DEF TrustInv

(* Every other step leaves the file alone.                                  *)
LEMMA HostKeysStep ==
  ASSUME H!SettingOK, TrustInv, [H!Next]_(H!vars)
  PROVE  TrustInv' /\ H!KeyIsKept
<1>. USE DEF H!SettingOK, TrustInv, H!TypeOK, H!Known, H!Places, HostKeysLockHeld,
             Registering, SeenIsThere, LookIsCurrent, ReplacedIsThere,
             H!SessionsAreTrusted, H!setting
<1>1. ASSUME NEW c \in Connections, H!Connect(c) PROVE TrustInv' /\ file' = file
  BY <1>1 DEF H!Connect, H!To
<1>2. ASSUME NEW c \in Connections, H!Handshake(c) PROVE TrustInv' /\ file' = file
  BY <1>2 DEF H!Handshake, H!To
<1>3. ASSUME NEW c \in Connections, H!Lock(c) PROVE TrustInv' /\ file' = file
  BY <1>3 DEF H!Lock, H!To
<1>4. ASSUME NEW c \in Connections, H!Load(c) PROVE TrustInv' /\ file' = file
  BY <1>4 DEF H!Load, H!To
<1>5. ASSUME NEW c \in Connections, H!Decide(c) PROVE TrustInv' /\ file' = file
  BY <1>5 DEF H!Decide, H!Refuse, H!To
<1>6. ASSUME NEW c \in Connections, H!Register(c) PROVE TrustInv' /\ file' = file
  BY <1>6 DEF H!Register, H!To
<1>7. CASE H!Crash
  <2>1. TrustInv' /\ file' = file  BY <1>7 DEF H!Crash
  <2>. QED  BY <2>1 DEF H!KeyIsKept
<1>8. CASE UNCHANGED H!vars
  BY <1>8 DEF H!vars, H!KeyIsKept
<1>9. ASSUME NEW c \in Connections, H!Replace(c) PROVE TrustInv' /\ H!KeyIsKept
  BY <1>9, HostKeysReplaceKeeps
<1>. QED  BY <1>1, <1>2, <1>3, <1>4, <1>5, <1>6, <1>7, <1>8, <1>9 DEF H!Next, H!KeyIsKept

LEMMA HostKeysRuns ==
  ASSUME [OperationsNext]_allVars, scenario' = "hostkeys"
  PROVE  scenario = "hostkeys" /\ [H!Next]_(H!vars)
<1>1. CASE OperationsNext
  BY <1>1 DEF OperationsNext
<1>2. CASE UNCHANGED allVars
  BY <1>2 DEF allVars, shared, ofHostKeys, H!vars
<1>. QED  BY <1>1, <1>2

LEMMA HostKeysAlways == OperationsSpec => [](scenario = "hostkeys" => TrustInv)
<1>1. OperationsInit => (scenario = "hostkeys" => TrustInv)
  BY SettingsOK, HostKeysInit DEF OperationsInit
<1>2. (scenario = "hostkeys" => TrustInv) /\ [OperationsNext]_allVars
        => (scenario = "hostkeys" => TrustInv)'
  BY SettingsOK, HostKeysRuns, HostKeysStep
<1>. QED  BY <1>1, <1>2, PTL DEF OperationsSpec

(* A key that is in the file is never replaced or lost, whatever other      *)
(* connections register at the same time and over stops of SERVER; sessions *)
(* are of the key in the file; the output of a command is whole or it       *)
(* failed, and no command is started twice, unless the exit status overtook *)
(* output of an attempt.                                                    *)
THEOREM EngineCorrect == OperationsSpec => EngineHolds
<1>1. [OperationsNext]_allVars
        /\ (scenario = "commands" => RemoteInv) /\ (scenario = "commands" => RemoteInv)'
        /\ (scenario = "hostkeys" => TrustInv)
        => [/\ scenario = "commands" => (R!OutputIsWhole /\ R!StartsOnceIfRead)'
            /\ scenario = "hostkeys" => H!KeyIsKept /\ H!SessionsAreTrusted']_allVars
  <2>. SUFFICES ASSUME OperationsNext, scenario = "commands" => RemoteInv,
                       scenario' = "commands" => RemoteInv',
                       scenario = "hostkeys" => TrustInv
                PROVE  /\ scenario = "commands" => (R!OutputIsWhole /\ R!StartsOnceIfRead)'
                       /\ scenario = "hostkeys" => H!KeyIsKept /\ H!SessionsAreTrusted'
    OBVIOUS
  <2>1. scenario' = scenario
    BY DEF OperationsNext
  <2>2. ASSUME scenario = "commands" PROVE (R!OutputIsWhole /\ R!StartsOnceIfRead)'
    BY <2>1, <2>2 DEF RemoteInv
  <2>3. ASSUME scenario = "hostkeys" PROVE H!KeyIsKept /\ H!SessionsAreTrusted'
    <3>1. [H!Next]_(H!vars)
      BY <2>1, <2>3, HostKeysRuns
    <3>2. H!KeyIsKept /\ TrustInv'
      BY <2>3, <3>1, SettingsOK, HostKeysStep
    <3>. QED  BY <3>2 DEF TrustInv
  <2>. QED  BY <2>2, <2>3
<1>. QED  BY <1>1, RemoteAlways, HostKeysAlways, PTL DEF OperationsSpec, EngineHolds
===============================================================================

---------------------------- MODULE RegistryProofs ----------------------------
(***************************************************************************)
(* Proofs about Registry, for every set of devices, names and limits and   *)
(* every bound: its types, that names are unique, that a device that was   *)
(* cut off stays so, that what is registered is listed, bound and counted  *)
(* within the limit, and that what was removed is gone.                    *)
(***************************************************************************)
EXTENDS Registry, FiniteSetTheorems, TLAPS

(* Names that a registration may still lengthen.                           *)
FreshHosts == {Plain(n) : n \in Names} \cup (Names \X Devices \X {1})

(* The places of a handler that works for one device.                      *)
Acting == Places \ {"idle", "drop"}

(* What the place of a handler says about the device it works for.         *)
OpFits(v, records) ==
  /\ v.at \in Acting => v.dev \in Devices /\ v.host \in Hosts
  /\ v.at = "register" => records[v.dev] = None /\ v.host \in FreshHosts
  /\ v.at = "enlist" => v.host \in FreshHosts
  /\ v.at \in Acting \ {"register"} => records[v.dev] \in Record
  /\ v.at # "drop" => v.todo = {}
  /\ \A d \in v.todo : records[d] \in Record

(* A device has a record in memory if and only if it has one on disk.      *)
Recorded ==
  \A d \in Devices : \/ rec[d] \in Record /\ recDisk[d] \in Record
                     \/ rec[d] = None /\ recDisk[d] = None

(* A registration that is not complete has a name that may be lengthened.  *)
PendingFresh(records) ==
  \A d \in Devices :
    records[d] \in Record /\ records[d].pending => records[d].host \in FreshHosts

(* Only devices with a record are bound or wait.                           *)
BoundKnown ==
  \A h \in Hosts : /\ bound[h] \in Devices => rec[bound[h]] \in Record
                   /\ boundDisk[h] \in Devices => rec[boundDisk[h]] \in Record
WaitKnown == \A d \in waiting : rec[d] \in Record

RegInv ==
  /\ TypeOK
  /\ Recorded
  /\ OpFits(op, rec)
  /\ PendingFresh(rec) /\ PendingFresh(recDisk)
  /\ BoundKnown
  /\ WaitKnown

-------------------------------------------------------------------------------
(* The operators *)

LEMMA FreshAreHosts == FreshHosts \subseteq Hosts
  BY DEF FreshHosts, Hosts

LEMMA IdleFits == Idle \in Op /\ \A records : OpFits(Idle, records)
  BY DEF Idle, Op, Places, Device, OpFits, Acting

(* A suffix may be added to a name that has at most one.                   *)
LEMMA UnusedType ==
  ASSUME NEW d \in Devices, NEW h \in FreshHosts
  PROVE  Unused(h, d) \in Hosts
<1>1. CASE h \in {Plain(n) : n \in Names}
  <2>1. PICK n \in Names : h = Plain(n)
    BY <1>1
  <2>2. Suffixed(h, d) = <<n, d, 1>>
    BY <2>1 DEF Suffixed, Plain
  <2>. QED  BY <2>2, FreshAreHosts DEF Unused, Hosts
<1>2. CASE h \in Names \X Devices \X {1}
  <2>1. Suffixed(h, d) = <<h[1], d, 2>> /\ h[1] \in Names
    BY <1>2 DEF Suffixed
  <2>. QED  BY <2>1, FreshAreHosts DEF Unused, Hosts
<1>. QED  BY <1>1, <1>2 DEF FreshHosts

(* The name that a new device gets may be lengthened once more.            *)
LEMMA FirstNameType ==
  ASSUME NEW d \in Devices, NEW n \in Names
  PROVE  Unused(Plain(n), d) \in FreshHosts
<1>1. Suffixed(Plain(n), d) = <<n, d, 1>>
  BY DEF Suffixed, Plain
<1>. QED  BY <1>1 DEF Unused, FreshHosts

LEMMA StepType ==
  ASSUME NEW place \in Places, NEW d \in Devices, NEW h \in Hosts
  PROVE  /\ Step(place, d, h) \in Op
         /\ Step(place, d, h).at = place /\ Step(place, d, h).dev = d
         /\ Step(place, d, h).host = h /\ Step(place, d, h).todo = {}
  BY DEF Step, Op, Device

LEMMA OutcomeType == \A o \in Outcomes : o \in {"ok", "old", "new"}
  BY DEF Outcomes

(* What a write of a record changes: the record of one device, to the new  *)
(* one or not at all, and no record goes away.                             *)
LEMMA SaveType ==
  ASSUME TypeOK, Recorded, NEW d \in Devices, NEW r \in Record,
         NEW o \in {"ok", "old", "new"}, SaveRecord(d, r, o)
  PROVE  /\ rec' \in [Devices -> Record \cup {None}]
         /\ recDisk' \in [Devices -> Record \cup {None}]
         /\ Recorded'
         /\ \A e \in Devices \ {d} : rec'[e] = rec[e] /\ recDisk'[e] = recDisk[e]
         /\ rec'[d] \in {rec[d], r} /\ recDisk'[d] \in {recDisk[d], r}
         /\ \A e \in Devices : rec[e] \in Record => rec'[e] \in Record
         /\ o = "ok" => rec'[d] = r /\ recDisk'[d] = r
<1>. USE DEF TypeOK
<1>1. /\ rec' = [rec EXCEPT ![d] = IF o = "ok" \/ (o = "new" /\ rec[d] = None) THEN r ELSE rec[d]]
      /\ recDisk' = [recDisk EXCEPT ![d] = IF o = "old" THEN recDisk[d] ELSE r]
  BY DEF SaveRecord, File
<1>2. /\ rec \in [Devices -> Record \cup {None}]
      /\ recDisk \in [Devices -> Record \cup {None}]
  BY DEF TypeOK
<1>3. /\ rec' \in [Devices -> Record \cup {None}]
      /\ recDisk' \in [Devices -> Record \cup {None}]
  BY <1>1, <1>2
<1>4. /\ \A e \in Devices \ {d} : rec'[e] = rec[e] /\ recDisk'[e] = recDisk[e]
      /\ rec'[d] \in {rec[d], r} /\ recDisk'[d] \in {recDisk[d], r}
      /\ o = "ok" => rec'[d] = r /\ recDisk'[d] = r
      /\ rec'[d] = IF o = "ok" \/ (o = "new" /\ rec[d] = None) THEN r ELSE rec[d]
      /\ recDisk'[d] = IF o = "old" THEN recDisk[d] ELSE r
  BY <1>1, <1>2
<1>5. \A e \in Devices : rec[e] \in Record => rec'[e] \in Record
  BY <1>4
<1>6. ASSUME NEW e \in Devices
      PROVE  \/ rec'[e] \in Record /\ recDisk'[e] \in Record
             \/ rec'[e] = None /\ recDisk'[e] = None
  BY <1>4 DEF Recorded
<1>. QED  BY <1>3, <1>4, <1>5, <1>6 DEF Recorded

(* A write of a record keeps what is said of records.                      *)
LEMMA SaveInv ==
  ASSUME RegInv, NEW d \in Devices, NEW r \in Record, r.pending => r.host \in FreshHosts,
         NEW o \in {"ok", "old", "new"}, SaveRecord(d, r, o),
         UNCHANGED <<bound, boundDisk>>, waiting' \subseteq waiting
  PROVE  /\ rec' \in [Devices -> Record \cup {None}]
         /\ recDisk' \in [Devices -> Record \cup {None}]
         /\ Recorded' /\ PendingFresh(rec') /\ PendingFresh(recDisk')
         /\ BoundKnown' /\ WaitKnown'
<1>1. TypeOK /\ Recorded /\ PendingFresh(rec) /\ PendingFresh(recDisk) /\ BoundKnown /\ WaitKnown
  BY DEF RegInv
<1>2. /\ rec' \in [Devices -> Record \cup {None}]
      /\ recDisk' \in [Devices -> Record \cup {None}]
      /\ Recorded'
      /\ \A e \in Devices \ {d} : rec'[e] = rec[e] /\ recDisk'[e] = recDisk[e]
      /\ rec'[d] \in {rec[d], r} /\ recDisk'[d] \in {recDisk[d], r}
      /\ \A e \in Devices : rec[e] \in Record => rec'[e] \in Record
  BY <1>1, SaveType
<1>3. PendingFresh(rec') /\ PendingFresh(recDisk')
  BY <1>1, <1>2 DEF PendingFresh
<1>4. BoundKnown'
  BY <1>1, <1>2 DEF BoundKnown
<1>5. WaitKnown'
  <2>1. waiting \subseteq Devices
    BY <1>1 DEF TypeOK
  <2>. QED  BY <1>1, <1>2, <2>1 DEF WaitKnown
<1>. QED  BY <1>2, <1>3, <1>4, <1>5

(* The handler goes on for the device it works for, or ends.               *)
LEMMA GoOnType ==
  ASSUME TypeOK, NEW place \in Acting \ {"register", "enlist"}, op.dev \in Devices,
         NEW h \in Hosts, NEW o \in {"ok", "old", "new"},
         GoOn(o, Step(place, op.dev, h)) \/ GoOn(o, Idle),
         o = "ok" => rec'[op.dev] \in Record
  PROVE  /\ op' \in Op /\ OpFits(op', rec')
         /\ faults' \in Nat /\ UNCHANGED <<crashes, configs, saves>>
<1>1. faults' \in Nat /\ UNCHANGED <<crashes, configs, saves>>
  BY DEF GoOn, TypeOK
<1>2. op' = Idle \/ (o = "ok" /\ op' = Step(place, op.dev, h))
  BY DEF GoOn
<1>3. CASE o = "ok" /\ op' = Step(place, op.dev, h)
  <2>1. /\ place \in Places /\ place # "idle" /\ place # "drop"
        /\ place # "register" /\ place # "enlist"
    BY DEF Acting
  <2>2. /\ op' \in Op /\ op'.at = place /\ op'.dev = op.dev /\ op'.host = h /\ op'.todo = {}
    BY <1>3, <2>1, StepType
  <2>. QED  BY <1>1, <1>3, <2>1, <2>2 DEF OpFits
<1>. QED  BY <1>1, <1>2, <1>3, IdleFits

-------------------------------------------------------------------------------
(* The invariant: types, and what the place of a handler says *)

LEMMA RegInit == Init => RegInv
<1>. SUFFICES ASSUME Init PROVE RegInv
  OBVIOUS
<1>1. \A n \in {MaxFaults, MaxCrashes, MaxConfigs, MaxSaves} : 0 \in 0..n
  BY RegistryAssumption
<1>2. pol \in Policy /\ polDisk \in Policy
  BY <1>1 DEF Init, Policy
<1>3. /\ bound \in [Hosts -> Device] /\ boundDisk \in [Hosts -> Device]
      /\ rec \in [Devices -> Record \cup {None}] /\ recDisk \in [Devices -> Record \cup {None}]
      /\ stamp \in [Devices -> 0..MaxConfigs \cup {None}]
  BY DEF Init, Device
<1>4. TypeOK
  BY <1>1, <1>2, <1>3, IdleFits DEF Init, TypeOK
<1>5. \A d \in Devices : rec[d] = None /\ recDisk[d] = None
  BY DEF Init
<1>6. \A h \in Hosts : bound[h] = None /\ boundDisk[h] = None
  BY DEF Init
<1>7. /\ Recorded /\ WaitKnown
      /\ PendingFresh(rec) /\ PendingFresh(recDisk)
  BY <1>5, NoneAssumption DEF Init, Recorded, WaitKnown, PendingFresh
<1>8. BoundKnown
  BY <1>6, RegistryAssumption DEF BoundKnown
<1>. QED  BY <1>4, <1>7, <1>8, IdleFits DEF Init, RegInv

(* A challenge is given.                                                   *)
LEMMA HelloInv ==
  ASSUME RegInv, NEW d \in Devices, Hello(d)
  PROVE  RegInv'
  BY DEF Hello, RegInv, TypeOK, Recorded, BoundKnown, WaitKnown, registry, policy, ghosts, bounds

(* A request arrives.                                                      *)
LEMMA ComeInv ==
  ASSUME RegInv, NEW d \in Devices, NEW n \in Names,
         Exchange(d, n) \/ Deny(d, n)
  PROVE  RegInv'
<1>. USE DEF RegInv, registry, policy, ghosts, bounds
<1>1. CASE Deny(d, n)
  BY <1>1 DEF Deny, TypeOK, Recorded, BoundKnown, WaitKnown
<1>2. CASE Exchange(d, n)
  <2>1. CASE /\ rec[d] = None /\ UNCHANGED <<rec, recDisk>>
             /\ op' = Step("register", d, Unused(Plain(n), d))
    <3>1. Unused(Plain(n), d) \in FreshHosts /\ Unused(Plain(n), d) \in Hosts
      BY FirstNameType, FreshAreHosts
    <3>2. /\ op' \in Op /\ op'.at = "register" /\ op'.dev = d
          /\ op'.host = Unused(Plain(n), d) /\ op'.todo = {}
      BY <2>1, <3>1, StepType DEF Places
    <3>3. OpFits(op', rec')
      BY <2>1, <3>1, <3>2 DEF OpFits
    <3>. QED  BY <1>2, <2>1, <3>2, <3>3 DEF Exchange, TypeOK, Recorded, BoundKnown, WaitKnown
  <2>2. CASE /\ rec[d] # None
             /\ op' = Step(IF rec[d].pending THEN "enlist" ELSE "answer", d, rec[d].host)
             /\ rec' = Aged(rec, d) /\ recDisk' = Aged(recDisk, d)
    <3>1. rec[d] \in Record /\ recDisk[d] \in Record
      BY <2>2 DEF Recorded
    <3>2. /\ [rec[d] EXCEPT !.seen = FALSE] \in Record
          /\ [rec[d] EXCEPT !.seen = FALSE].pending = rec[d].pending
          /\ [rec[d] EXCEPT !.seen = FALSE].host = rec[d].host
          /\ [recDisk[d] EXCEPT !.seen = FALSE] \in Record
          /\ [recDisk[d] EXCEPT !.seen = FALSE].pending = recDisk[d].pending
          /\ [recDisk[d] EXCEPT !.seen = FALSE].host = recDisk[d].host
      BY <3>1 DEF Record
    <3>3. /\ rec' = [rec EXCEPT ![d] = [rec[d] EXCEPT !.seen = FALSE]]
          /\ recDisk' = [recDisk EXCEPT ![d] = [recDisk[d] EXCEPT !.seen = FALSE]]
      BY <2>2, <3>1, NoneAssumption DEF Aged
    <3>4. /\ rec' \in [Devices -> Record \cup {None}]
          /\ recDisk' \in [Devices -> Record \cup {None}]
          /\ \A e \in Devices \ {d} : rec'[e] = rec[e] /\ recDisk'[e] = recDisk[e]
          /\ rec'[d] = [rec[d] EXCEPT !.seen = FALSE]
          /\ recDisk'[d] = [recDisk[d] EXCEPT !.seen = FALSE]
      BY <3>2, <3>3 DEF TypeOK
    <3>5. Recorded' /\ PendingFresh(rec') /\ PendingFresh(recDisk')
      <4>1. Recorded /\ PendingFresh(rec) /\ PendingFresh(recDisk)
        OBVIOUS
      <4>2. rec'[d] \in Record /\ recDisk'[d] \in Record
        BY <3>2, <3>4
      <4>3. Recorded'
        BY <3>4, <4>1, <4>2 DEF Recorded
      <4>4. rec'[d].pending => rec'[d].host \in FreshHosts
        BY <3>1, <3>2, <3>4, <4>1 DEF PendingFresh
      <4>5. recDisk'[d].pending => recDisk'[d].host \in FreshHosts
        BY <3>1, <3>2, <3>4, <4>1 DEF PendingFresh
      <4>6. PendingFresh(rec')
        BY <3>4, <4>1, <4>4 DEF PendingFresh
      <4>7. PendingFresh(recDisk')
        BY <3>4, <4>1, <4>5 DEF PendingFresh
      <4>. QED  BY <4>3, <4>6, <4>7
    <3>6. \A e \in Devices : rec[e] \in Record => rec'[e] \in Record
      BY <3>2, <3>4
    <3>7. UNCHANGED <<inv, bound, boundDisk, pol, polDisk, waiting, view, stamp, gone>>
      BY <1>2 DEF Exchange
    <3>8. BoundKnown' /\ WaitKnown'
      <4>1. waiting \subseteq Devices
        BY DEF TypeOK
      <4>2. BoundKnown'
        BY <3>6, <3>7 DEF BoundKnown
      <4>3. WaitKnown'
        BY <3>6, <3>7, <4>1 DEF WaitKnown
      <4>. QED  BY <4>2, <4>3
    <3>9. rec[d].host \in Hosts /\ rec[d].pending \in BOOLEAN
      BY <3>1 DEF Record
    <3>10. PICK place \in {"enlist", "answer"} :
             op' = Step(place, d, rec[d].host) /\ (place = "enlist" => rec[d].pending)
      BY <2>2, <3>9
    <3>11. /\ op' \in Op /\ op'.at = place /\ op'.dev = d
           /\ op'.host = rec[d].host /\ op'.todo = {}
      BY <3>9, <3>10, StepType DEF Places
    <3>12. OpFits(op', rec')
      BY <3>1, <3>2, <3>4, <3>9, <3>10, <3>11 DEF OpFits, PendingFresh
    <3>13. TypeOK'
      BY <1>2, <3>4, <3>7, <3>11 DEF Exchange, TypeOK
    <3>. QED  BY <3>5, <3>8, <3>12, <3>13
  <2>. QED  BY <1>2, <2>1, <2>2 DEF Exchange, Known
<1>. QED  BY <1>1, <1>2

(* The writes of a record: the handler goes on, or ends.                   *)
LEMMA SaveStep ==
  ASSUME RegInv, NEW r \in Record, op.dev \in Devices, r.pending => r.host \in FreshHosts,
         NEW o \in {"ok", "old", "new"}, SaveRecord(op.dev, r, o),
         NEW place \in Acting \ {"register", "enlist"}, NEW h \in Hosts,
         GoOn(o, Step(place, op.dev, h)) \/ GoOn(o, Idle),
         UNCHANGED <<inv, bound, boundDisk, policy, challenges, waiting, view, ghosts>>
  PROVE  RegInv'
<1>. USE DEF policy, ghosts
<1>1. /\ rec' \in [Devices -> Record \cup {None}]
      /\ recDisk' \in [Devices -> Record \cup {None}]
      /\ Recorded' /\ PendingFresh(rec') /\ PendingFresh(recDisk')
      /\ BoundKnown' /\ WaitKnown'
  BY SaveInv
<1>2. TypeOK /\ Recorded
  BY DEF RegInv
<1>3. o = "ok" => rec'[op.dev] \in Record
  BY <1>2, SaveType
<1>4. /\ op' \in Op /\ OpFits(op', rec')
      /\ faults' \in Nat /\ UNCHANGED <<crashes, configs, saves>>
  BY <1>2, <1>3, GoOnType
<1>5. TypeOK'
  BY <1>1, <1>2, <1>4 DEF TypeOK
<1>. QED  BY <1>1, <1>4, <1>5 DEF RegInv

LEMMA RegisterInv ==
  ASSUME RegInv, NEW o \in {"ok", "old", "new"}, Register(o)
  PROVE  RegInv'
<1>. USE DEF policy, ghosts
<1>1. /\ TypeOK /\ Recorded /\ op.at = "register" /\ op.dev \in Devices
      /\ op.host \in FreshHosts /\ op.host \in Hosts
  BY DEF RegInv, Register, OpFits, Acting, Places
<1>2. NewRecord(op.host) \in Record /\ NewRecord(op.host).host = op.host
  BY <1>1 DEF NewRecord, Record
<1>3. UNCHANGED <<inv, bound, boundDisk, pol, polDisk, challenges, waiting, view, stamp, gone>>
  BY DEF Register
<1>4. SaveRecord(op.dev, NewRecord(op.host), o)
  BY DEF Register
<1>5. /\ rec' \in [Devices -> Record \cup {None}]
      /\ recDisk' \in [Devices -> Record \cup {None}]
      /\ Recorded' /\ PendingFresh(rec') /\ PendingFresh(recDisk')
      /\ BoundKnown' /\ WaitKnown'
  BY <1>1, <1>2, <1>3, <1>4, SaveInv
<1>6. o = "ok" => rec'[op.dev] \in Record
  BY <1>1, <1>2, <1>4, SaveType
<1>7. /\ faults' \in Nat /\ UNCHANGED <<crashes, configs, saves>>
      /\ op' = Idle \/ (o = "ok" /\ op' = Step("enlist", op.dev, op.host))
  BY <1>1 DEF Register, GoOn, TypeOK
<1>8. op' \in Op /\ OpFits(op', rec')
  <2>1. CASE o = "ok" /\ op' = Step("enlist", op.dev, op.host)
    <3>1. /\ op' \in Op /\ op'.at = "enlist" /\ op'.dev = op.dev
          /\ op'.host = op.host /\ op'.todo = {}
      BY <1>1, <2>1, StepType DEF Places
    <3>. QED  BY <1>1, <1>6, <2>1, <3>1 DEF OpFits
  <2>. QED  BY <1>7, <2>1, IdleFits
<1>9. TypeOK'
  BY <1>1, <1>3, <1>5, <1>7, <1>8 DEF TypeOK
<1>. QED  BY <1>5, <1>8, <1>9 DEF RegInv

(* The writes of the inventory, of the bindings and of the policy.         *)
LEMMA ListInv ==
  ASSUME RegInv, NEW place \in Acting \ {"register", "enlist"}, NEW h \in Hosts,
         NEW o \in {"ok", "old", "new"},
         op.dev \in Devices, rec[op.dev] \in Record,
         GoOn(o, Step(place, op.dev, h)) \/ GoOn(o, Idle),
         UNCHANGED <<rec, recDisk, challenges, waiting, view>>,
         inv' \subseteq Row,
         bound' \in [Hosts -> Device], boundDisk' \in [Hosts -> Device],
         \A k \in Hosts : /\ bound'[k] \in {bound[k], op.dev, None}
                          /\ boundDisk'[k] \in {boundDisk[k], bound'[k]},
         pol' \in Policy, polDisk' \in Policy,
         stamp' \in [Devices -> 0..MaxConfigs \cup {None}], gone' \subseteq Devices
  PROVE  RegInv'
<1>. USE DEF RegInv
<1>1. /\ op' \in Op /\ OpFits(op', rec')
      /\ faults' \in Nat /\ UNCHANGED <<crashes, configs, saves>>
  BY GoOnType
<1>2. BoundKnown'
  BY RegistryAssumption DEF BoundKnown, TypeOK
<1>3. TypeOK'
  BY <1>1 DEF TypeOK
<1>. QED  BY <1>1, <1>2, <1>3 DEF Recorded, PendingFresh, WaitKnown
(* The steps of a registration, after the record was saved.                *)
LEMMA FinishInv ==
  ASSUME RegInv, NEW o \in {"ok", "old", "new"},
         Enlist(o) \/ Bind(o) \/ Count(o) \/ Settle(o)
  PROVE  RegInv'
<1>. USE DEF registry, policy, ghosts
<1>1. /\ TypeOK /\ Recorded /\ op.dev \in Devices /\ op.host \in Hosts
      /\ rec[op.dev] \in Record
      /\ op.at = "enlist" => op.host \in FreshHosts
  BY DEF RegInv, OpFits, Acting, Places, Enlist, Bind, Count, Settle
<1>2. {"bind", "count", "settle", "answer"} \subseteq Acting \ {"register", "enlist"}
  BY DEF Acting, Places
<1>3. CASE Enlist(o)
  <2>. DEFINE h == Unused(op.host, op.dev)
              w == [host |-> h, agent |-> op.dev]
  <2>1. h \in Hosts
    BY <1>1, <1>3, UnusedType DEF Enlist
  <2>2. w \in Row
    BY <1>1, <2>1 DEF Row, Device
  <2>3. inv' = File(o, inv, inv \cup {w}) /\ GoOn(o, Step("bind", op.dev, h))
    BY <1>3 DEF Enlist
  <2>4. inv' \subseteq Row
    BY <1>1, <2>2, <2>3 DEF File, TypeOK
  <2>5. UNCHANGED <<bound, boundDisk, rec, recDisk, pol, polDisk, challenges, waiting, view,
                    stamp, gone>>
    BY <1>3 DEF Enlist
  <2>. HIDE DEF h
  <2>. QED  BY <1>1, <1>2, <2>1, <2>3, <2>4, <2>5, ListInv DEF TypeOK
<1>4. CASE Bind(o)
  <2>1. /\ bound' = [bound EXCEPT ![op.host] = op.dev]
        /\ boundDisk' = IF o = "old" THEN boundDisk ELSE bound'
    BY <1>4 DEF Bind, File
  <2>2. /\ bound' \in [Hosts -> Device] /\ boundDisk' \in [Hosts -> Device]
        /\ \A k \in Hosts : /\ bound'[k] \in {bound[k], op.dev, None}
                            /\ boundDisk'[k] \in {boundDisk[k], bound'[k]}
    BY <1>1, <2>1 DEF TypeOK, Device
  <2>3. /\ GoOn(o, Step("count", op.dev, op.host))
        /\ UNCHANGED <<inv, rec, recDisk, pol, polDisk, challenges, waiting, view,
                       stamp, gone>>
    BY <1>4 DEF Bind
  <2>. QED  BY <1>1, <1>2, <2>2, <2>3, ListInv DEF TypeOK
<1>5. CASE Count(o)
  <2>1. /\ pol' = [pol EXCEPT !.used = pol.used + 1]
        /\ polDisk' = IF o = "old" THEN polDisk ELSE pol'
        /\ stamp' \in {stamp, [stamp EXCEPT ![op.dev] = pol.epoch]}
    BY <1>5 DEF Count, File
  <2>2. pol' \in Policy /\ polDisk' \in Policy
    <3>1. pol \in Policy /\ polDisk \in Policy
      BY <1>1 DEF TypeOK
    <3>. QED  BY <2>1, <3>1 DEF Policy
  <2>3. stamp' \in [Devices -> 0..MaxConfigs \cup {None}]
    BY <1>1, <2>1 DEF TypeOK, Policy
  <2>4. /\ GoOn(o, Step("settle", op.dev, op.host))
        /\ UNCHANGED <<inv, bound, boundDisk, rec, recDisk, challenges, waiting, view, gone>>
    BY <1>5 DEF Count
  <2>. QED  BY <1>1, <1>2, <2>2, <2>3, <2>4, ListInv DEF TypeOK
<1>6. CASE Settle(o)
  <2>. DEFINE r == [rec[op.dev] EXCEPT !.host = op.host, !.pending = FALSE]
  <2>1. r \in Record /\ ~r.pending
    BY <1>1 DEF Record
  <2>2. /\ SaveRecord(op.dev, r, o) /\ GoOn(o, Step("answer", op.dev, op.host))
        /\ UNCHANGED <<inv, bound, boundDisk, policy, challenges, waiting, view, ghosts>>
    BY <1>6 DEF Settle
  <2>. HIDE DEF r
  <2>. QED  BY <1>1, <1>2, <2>1, <2>2, SaveStep
<1>. QED  BY <1>3, <1>4, <1>5, <1>6

(* The steps that take up a row, and the ends of an exchange.              *)
LEMMA RestInv ==
  ASSUME RegInv,
         (\E w \in inv : TakeUp(w)) \/ Duplicate \/ Refuse \/ Wait
  PROVE  RegInv'
<1>. USE DEF registry, policy, ghosts, bounds
<1>1. /\ TypeOK /\ Recorded /\ op.dev \in Devices /\ op.host \in Hosts
      /\ rec[op.dev] \in Record
  BY DEF RegInv, OpFits, Acting, Places, TakeUp, Duplicate, Refuse, Wait
<1>2. UNCHANGED <<inv, bound, boundDisk, rec, recDisk, pol, polDisk, challenges, view,
                  stamp, gone, faults, crashes, configs, saves>>
  BY DEF TakeUp, Duplicate, Refuse, Wait
<1>3. waiting' = waiting \/ waiting' = waiting \cup {op.dev}
  BY DEF TakeUp, Duplicate, Refuse, Wait
<1>4. op' \in Op /\ OpFits(op', rec')
  <2>1. CASE op' = Idle
    BY <2>1, IdleFits
  <2>2. ASSUME NEW w \in inv, TakeUp(w)
        PROVE  op' \in Op /\ OpFits(op', rec')
    <3>1. w.host \in Hosts
      BY <1>1 DEF TypeOK, Row
    <3>2. /\ op' \in Op /\ op'.at = "bind" /\ op'.dev = op.dev
          /\ op'.host = w.host /\ op'.todo = {}
      BY <1>1, <2>2, <3>1, StepType DEF TakeUp, Places
    <3>. QED  BY <1>1, <1>2, <3>1, <3>2 DEF OpFits
  <2>. QED  BY <2>1, <2>2 DEF Duplicate, Refuse, Wait
<1>5. TypeOK'
  BY <1>1, <1>2, <1>3, <1>4 DEF TypeOK
<1>6. Recorded' /\ PendingFresh(rec') /\ PendingFresh(recDisk') /\ BoundKnown'
  BY <1>2 DEF RegInv, Recorded, PendingFresh, BoundKnown
<1>7. WaitKnown'
  BY <1>1, <1>2, <1>3 DEF RegInv, WaitKnown
<1>. QED  BY <1>4, <1>5, <1>6, <1>7 DEF RegInv

(* The end of an exchange that waited, or reports something.               *)
LEMMA AnswerInv ==
  ASSUME RegInv, NEW u \in BOOLEAN, NEW o \in {"ok", "old", "new"}, Answer(u, o)
  PROVE  RegInv'
<1>1. /\ op.dev \in Devices /\ op.host \in Hosts /\ rec[op.dev] \in Record
      /\ PendingFresh(rec)
  BY DEF RegInv, OpFits, Acting, Places, Answer
<1>. DEFINE r == [rec[op.dev] EXCEPT !.seen = TRUE, !.uninstalled = u]
<1>2. r \in Record /\ r.pending = rec[op.dev].pending /\ r.host = rec[op.dev].host
  BY <1>1 DEF Record
<1>3. r.pending => r.host \in FreshHosts
  BY <1>1, <1>2 DEF PendingFresh
<1>4. /\ SaveRecord(op.dev, r, o) /\ GoOn(o, Idle)
      /\ UNCHANGED <<inv, bound, boundDisk, policy, challenges, waiting, view, ghosts>>
  BY DEF Answer
<1>5. "answer" \in Acting \ {"register", "enlist"}
  BY DEF Acting, Places
<1>. HIDE DEF r
<1>. QED  BY <1>1, <1>2, <1>3, <1>4, <1>5, SaveStep
(* The wait of a device ends.                                              *)
LEMMA WakeInv ==
  ASSUME RegInv, NEW d \in Devices, NEW o \in {"ok", "old", "new"}, Wake(d, o)
  PROVE  RegInv'
<1>. USE DEF policy, ghosts
<1>1. /\ TypeOK /\ Recorded /\ PendingFresh(rec) /\ rec[d] \in Record /\ OpFits(op, rec)
      /\ Free
  BY DEF RegInv, WaitKnown, Wake
<1>2. /\ UNCHANGED <<inv, bound, boundDisk, pol, polDisk, op, challenges, view,
                     stamp, gone, crashes, configs, saves>>
      /\ waiting' \subseteq waiting /\ faults' \in Nat
  BY <1>1 DEF Wake, TypeOK
<1>3. op' \in Op /\ OpFits(op', rec')
  BY <1>1, <1>2 DEF OpFits, Free, Acting, TypeOK
<1>4. CASE UNCHANGED <<rec, recDisk>>
  <2>1. TypeOK'
    BY <1>1, <1>2, <1>3, <1>4 DEF TypeOK
  <2>2. Recorded' /\ PendingFresh(rec') /\ PendingFresh(recDisk') /\ BoundKnown'
    BY <1>2, <1>4 DEF RegInv, Recorded, PendingFresh, BoundKnown
  <2>3. WaitKnown'
    BY <1>2, <1>4 DEF RegInv, WaitKnown
  <2>. QED  BY <1>3, <2>1, <2>2, <2>3 DEF RegInv
<1>5. CASE SaveRecord(d, rec[d], o)
  <2>1. rec[d].pending => rec[d].host \in FreshHosts
    BY <1>1 DEF PendingFresh
  <2>2. /\ rec' \in [Devices -> Record \cup {None}]
        /\ recDisk' \in [Devices -> Record \cup {None}]
        /\ Recorded' /\ PendingFresh(rec') /\ PendingFresh(recDisk')
        /\ BoundKnown' /\ WaitKnown'
    BY <1>1, <1>2, <1>5, <2>1, SaveInv
  <2>3. TypeOK'
    BY <1>1, <1>2, <1>3, <2>2 DEF TypeOK
  <2>. QED  BY <1>3, <2>2, <2>3 DEF RegInv
<1>. QED  BY <1>4, <1>5 DEF Wake

(* A device is cut off, and perhaps taken from the list.                   *)
LEMMA WithdrawInv ==
  ASSUME RegInv, NEW o \in {"ok", "old", "new"},
         Revoke(o) \/ Remove(o) \/ Unbind(o) \/ Unlist(o)
  PROVE  RegInv'
<1>. USE DEF policy, ghosts
<1>1. /\ TypeOK /\ Recorded /\ op.dev \in Devices /\ op.host \in Hosts
      /\ rec[op.dev] \in Record
      /\ PendingFresh(rec) /\ PendingFresh(recDisk) /\ BoundKnown /\ WaitKnown
  BY DEF RegInv, OpFits, Acting, Places, Revoke, Remove, Unbind, Unlist
<1>2. {"remove", "unbind", "unlist", "settle"} \subseteq Acting \ {"register", "enlist"}
  BY DEF Acting, Places
<1>3. CASE Revoke(o)
  <2>. DEFINE r == [rec[op.dev] EXCEPT !.revoked = TRUE]
  <2>1. r \in Record /\ r.pending = rec[op.dev].pending /\ r.host = rec[op.dev].host
    BY <1>1 DEF Record
  <2>2. r.pending => r.host \in FreshHosts
    BY <1>1, <2>1 DEF PendingFresh
  <2>3. /\ SaveRecord(op.dev, r, o)
        /\ GoOn(o, Step("remove", op.dev, op.host)) \/ GoOn(o, Idle)
        /\ UNCHANGED <<inv, bound, boundDisk, policy, challenges, waiting, view, ghosts>>
    BY <1>3 DEF Revoke
  <2>. HIDE DEF r
  <2>. QED  BY <1>1, <1>2, <2>1, <2>2, <2>3, SaveStep
<1>4. CASE Remove(o)
  <2>. DEFINE r == [rec[op.dev] EXCEPT !.removed = TRUE]
  <2>1. r \in Record /\ r.pending = rec[op.dev].pending /\ r.host = rec[op.dev].host
    BY <1>1 DEF Record
  <2>2. rec' = [rec EXCEPT ![op.dev] = r]
    BY <1>4 DEF Remove
  <2>. HIDE DEF r
  <2>3. rec'[op.dev] = r
    BY <1>1, <2>2 DEF TypeOK
  <2>4. recDisk' = [recDisk EXCEPT ![op.dev] = IF o = "old" THEN recDisk[op.dev] ELSE r]
    <3>1. recDisk' = [recDisk EXCEPT ![op.dev] = File(o, recDisk[op.dev], rec'[op.dev])]
      BY <1>4, Zenon DEF Remove
    <3>. QED  BY <2>3, <3>1 DEF File
  <2>5. recDisk[op.dev] \in Record
    BY <1>1, NoneAssumption DEF Recorded
  <2>6. /\ rec' \in [Devices -> Record \cup {None}]
        /\ recDisk' \in [Devices -> Record \cup {None}]
        /\ \A e \in Devices \ {op.dev} : rec'[e] = rec[e] /\ recDisk'[e] = recDisk[e]
        /\ recDisk'[op.dev] \in {recDisk[op.dev], r}
    BY <1>1, <2>1, <2>2, <2>4 DEF TypeOK
  <2>7. Recorded'
    BY <1>1, <2>1, <2>3, <2>5, <2>6 DEF Recorded
  <2>8. r.pending => r.host \in FreshHosts
    BY <1>1, <2>1 DEF PendingFresh
  <2>9. PendingFresh(rec') /\ PendingFresh(recDisk')
    <3>1. PendingFresh(rec')
      BY <1>1, <2>3, <2>6, <2>8 DEF PendingFresh
    <3>2. PendingFresh(recDisk')
      BY <1>1, <2>6, <2>8 DEF PendingFresh
    <3>. QED  BY <3>1, <3>2
  <2>10. \A e \in Devices : rec[e] \in Record => rec'[e] \in Record
    BY <2>1, <2>3, <2>6
  <2>11. UNCHANGED <<inv, bound, boundDisk, pol, polDisk, challenges, waiting, view,
                     stamp, gone>>
    BY <1>4 DEF Remove
  <2>12. BoundKnown' /\ WaitKnown'
    <3>1. waiting \subseteq Devices
      BY <1>1 DEF TypeOK
    <3>2. BoundKnown'
      BY <1>1, <2>10, <2>11 DEF BoundKnown
    <3>3. WaitKnown'
      BY <1>1, <2>10, <2>11, <3>1 DEF WaitKnown
    <3>. QED  BY <3>2, <3>3
  <2>13. /\ op' \in Op /\ OpFits(op', rec')
         /\ faults' \in Nat /\ UNCHANGED <<crashes, configs, saves>>
    <3>1. GoOn(o, Step("unbind", op.dev, op.host))
      BY <1>4 DEF Remove
    <3>. QED  BY <1>1, <1>2, <2>1, <2>3, <3>1, GoOnType
  <2>14. TypeOK'
    BY <1>1, <2>6, <2>11, <2>13 DEF TypeOK
  <2>. QED  BY <2>7, <2>9, <2>12, <2>13, <2>14 DEF RegInv
<1>5. CASE Unbind(o)
  <2>1. /\ bound' = [bound EXCEPT ![op.host] = None]
        /\ boundDisk' = IF o = "old" THEN boundDisk ELSE bound'
    BY <1>5 DEF Unbind, File
  <2>2. /\ bound' \in [Hosts -> Device] /\ boundDisk' \in [Hosts -> Device]
        /\ \A k \in Hosts : /\ bound'[k] \in {bound[k], op.dev, None}
                            /\ boundDisk'[k] \in {boundDisk[k], bound'[k]}
    BY <1>1, <2>1 DEF TypeOK, Device
  <2>3. /\ GoOn(o, Step("unlist", op.dev, op.host))
        /\ UNCHANGED <<inv, rec, recDisk, pol, polDisk, challenges, waiting, view,
                       stamp, gone>>
    BY <1>5 DEF Unbind
  <2>. QED  BY <1>1, <1>2, <2>2, <2>3, ListInv DEF TypeOK
<1>6. CASE Unlist(o)
  <2>1. inv' \subseteq Row /\ gone' \subseteq Devices
    BY <1>1, <1>6 DEF Unlist, File, TypeOK
  <2>2. /\ GoOn(o, Idle)
        /\ UNCHANGED <<bound, boundDisk, rec, recDisk, pol, polDisk, challenges, waiting, view,
                       stamp>>
    BY <1>6 DEF Unlist
  <2>. QED  BY <1>1, <1>2, <2>1, <2>2, ListInv DEF TypeOK
<1>. QED  BY <1>3, <1>4, <1>5, <1>6

(* The policy, the GUI's copy of the inventory, and a device to revoke.  *)
LEMMA ChooseInv ==
  ASSUME RegInv,
         \/ \E d \in Devices : StartRevoke(d)
         \/ GuiRead
         \/ \E m \in Limits, open \in BOOLEAN, o \in Outcomes : Configure(m, open, o)
         \/ \E keep, more \in SUBSET Hosts : SaveInventory(keep, more)
  PROVE  RegInv'
<1>. USE DEF registry, policy, ghosts, bounds
<1>1. TypeOK /\ Recorded /\ OpFits(op, rec) /\ BoundKnown
  BY DEF RegInv
<1>2. UNCHANGED <<inv, bound, boundDisk, rec, recDisk, challenges, waiting, stamp, gone, crashes>>
  BY DEF StartRevoke, GuiRead, Configure, SaveInventory
<1>3. Recorded' /\ PendingFresh(rec') /\ PendingFresh(recDisk') /\ BoundKnown' /\ WaitKnown'
  BY <1>2 DEF RegInv, Recorded, PendingFresh, BoundKnown, WaitKnown
<1>4. ASSUME NEW d \in Devices, StartRevoke(d)
      PROVE  RegInv'
  <2>1. rec[d] \in Record /\ rec[d].host \in Hosts
    BY <1>1, <1>4 DEF StartRevoke, Known, Recorded, Record
  <2>2. /\ op' \in Op /\ op'.at = "revoke" /\ op'.dev = d
        /\ op'.host = rec[d].host /\ op'.todo = {}
    BY <1>4, <2>1, StepType DEF StartRevoke, Places
  <2>3. OpFits(op', rec')
    BY <1>2, <2>1, <2>2 DEF OpFits
  <2>4. TypeOK'
    BY <1>1, <1>2, <1>4, <2>2 DEF TypeOK, StartRevoke
  <2>. QED  BY <1>3, <2>3, <2>4 DEF RegInv
<1>5. CASE GuiRead
  <2>1. HostsOf(inv) \in SUBSET Hosts
    BY <1>1 DEF TypeOK, HostsOf, Row
  <2>2. TypeOK'
    BY <1>1, <1>2, <1>5, <2>1 DEF TypeOK, GuiRead
  <2>3. OpFits(op', rec')
    BY <1>1, <1>2, <1>5 DEF GuiRead
  <2>. QED  BY <1>3, <2>2, <2>3 DEF RegInv
<1>6. ASSUME NEW m \in Limits, NEW open \in BOOLEAN, NEW o \in Outcomes, Configure(m, open, o)
      PROVE  RegInv'
  <2>. DEFINE p == [open |-> open, max |-> m, used |-> 0, epoch |-> configs + 1]
  <2>1. configs + 1 \in 0..MaxConfigs /\ faults' \in Nat
    BY <1>1, <1>6, RegistryAssumption DEF TypeOK, Configure
  <2>2. p \in Policy
    BY <2>1 DEF Policy
  <2>3. pol' \in {pol, p} /\ polDisk' \in {polDisk, p}
    BY <1>6 DEF Configure, File
  <2>4. pol' \in Policy /\ polDisk' \in Policy
    BY <1>1, <2>2, <2>3 DEF TypeOK
  <2>5. UNCHANGED <<op, view, saves>> /\ configs' = configs + 1
    BY <1>6 DEF Configure
  <2>6. TypeOK'
    BY <1>1, <1>2, <2>1, <2>4, <2>5 DEF TypeOK
  <2>. QED  BY <1>1, <1>2, <1>3, <2>5, <2>6 DEF RegInv
<1>7. ASSUME NEW keep \in SUBSET Hosts, NEW more \in SUBSET Hosts, SaveInventory(keep, more)
      PROVE  RegInv'
  <2>. DEFINE names == keep \cup more
  <2>1. view \subseteq Hosts /\ names \subseteq Hosts
    BY <1>1, <1>7 DEF TypeOK, SaveInventory
  <2>2. BoundTo(Hosts \ names) \subseteq Devices
    BY <1>1, <2>1 DEF BoundTo, TypeOK, Device
  <2>3. \A e \in BoundTo(Hosts \ names) : rec[e] \in Record
    BY <1>1, <2>2 DEF BoundTo, BoundKnown
  <2>4. /\ op' = [at |-> "drop", dev |-> None, host |-> None, todo |-> BoundTo(Hosts \ names),
                  names |-> names]
        /\ view' = None /\ saves' = saves + 1 /\ saves < MaxSaves
        /\ UNCHANGED <<pol, polDisk, faults, configs>>
    BY <1>7 DEF SaveInventory
  <2>. HIDE DEF names
  <2>5. op' \in Op /\ op'.at = "drop" /\ op'.todo = BoundTo(Hosts \ names)
    BY <2>1, <2>2, <2>4 DEF Op, Places, Device
  <2>6. OpFits(op', rec')
    BY <1>2, <2>3, <2>5 DEF OpFits, Acting
  <2>7. saves' \in 0..MaxSaves
    BY <1>1, <2>4, RegistryAssumption DEF TypeOK
  <2>8. TypeOK'
    BY <1>1, <1>2, <2>2, <2>4, <2>5, <2>7 DEF TypeOK
  <2>. QED  BY <1>3, <2>6, <2>8 DEF RegInv
<1>. QED  BY <1>4, <1>5, <1>6, <1>7

(* The steps of an inventory that is saved.                                *)
LEMMA DropInv ==
  ASSUME RegInv, NEW o \in {"ok", "old", "new"},
         (\E d \in Devices : Drop(d, o)) \/ WriteRows(o)
  PROVE  RegInv'
<1>. USE DEF registry, policy, ghosts
<1>1. /\ TypeOK /\ Recorded /\ OpFits(op, rec) /\ PendingFresh(rec) /\ PendingFresh(recDisk)
      /\ BoundKnown /\ WaitKnown
  BY DEF RegInv
<1>2. op \in Op /\ op.at = "drop"
  BY <1>1 DEF TypeOK, Drop, WriteRows
<1>3. faults' \in Nat /\ UNCHANGED <<crashes, configs, saves, bound, boundDisk, pol, polDisk,
                                     challenges, waiting, view, stamp, gone>>
  <2>1. ASSUME NEW d, Drop(d, o)
        PROVE  /\ \E next : GoOn(o, next)
               /\ UNCHANGED <<bound, boundDisk, pol, polDisk, challenges, waiting, view,
                              stamp, gone>>
    BY <2>1, Zenon DEF Drop
  <2>2. ASSUME WriteRows(o)
        PROVE  /\ \E next : GoOn(o, next)
               /\ UNCHANGED <<bound, boundDisk, pol, polDisk, challenges, waiting, view,
                              stamp, gone>>
    BY <2>2 DEF WriteRows
  <2>. QED  BY <1>1, <2>1, <2>2 DEF GoOn, TypeOK
<1>4. ASSUME NEW d \in Devices, Drop(d, o)
      PROVE  RegInv'
  <2>. DEFINE r == [rec[d] EXCEPT !.revoked = TRUE]
              p == [op EXCEPT !.todo = op.todo \ {d}]
  <2>1. rec[d] \in Record
    BY <1>1, <1>4 DEF OpFits, Drop
  <2>2. r \in Record /\ r.pending = rec[d].pending /\ r.host = rec[d].host
    BY <2>1 DEF Record
  <2>3. r.pending => r.host \in FreshHosts
    BY <1>1, <2>1, <2>2 DEF PendingFresh
  <2>4. SaveRecord(d, r, o) /\ UNCHANGED inv /\ op' \in {Idle, p}
    BY <1>4 DEF Drop, GoOn
  <2>5. p \in Op /\ p.at = "drop" /\ p.todo = op.todo \ {d}
    BY <1>2 DEF Op
  <2>. HIDE DEF r, p
  <2>6. /\ rec' \in [Devices -> Record \cup {None}]
        /\ recDisk' \in [Devices -> Record \cup {None}]
        /\ Recorded' /\ PendingFresh(rec') /\ PendingFresh(recDisk')
        /\ BoundKnown' /\ WaitKnown'
    BY <1>3, <2>2, <2>3, <2>4, SaveInv
  <2>7. \A e \in Devices : rec[e] \in Record => rec'[e] \in Record
    BY <1>1, <2>2, <2>4, SaveType
  <2>8. OpFits(p, rec')
    <3>1. \A e \in op.todo : e \in Devices /\ rec[e] \in Record
      BY <1>1, <1>2 DEF OpFits, Op
    <3>. QED  BY <2>5, <2>7, <3>1 DEF OpFits, Acting
  <2>9. op' \in Op /\ OpFits(op', rec')
    BY <2>4, <2>5, <2>8, IdleFits
  <2>10. TypeOK'
    BY <1>1, <1>3, <2>4, <2>6, <2>9 DEF TypeOK
  <2>. QED  BY <2>6, <2>9, <2>10 DEF RegInv
<1>5. CASE WriteRows(o)
  <2>. DEFINE rows == {[host |-> h, agent |-> None] : h \in op.names}
  <2>1. rows \subseteq Row
    BY <1>2 DEF Op, Row, Device
  <2>2. inv' \in {inv, rows} /\ op' = Idle /\ UNCHANGED <<rec, recDisk>>
    BY <1>5 DEF WriteRows, File, GoOn
  <2>3. op' \in Op /\ OpFits(op', rec')
    BY <2>2, IdleFits
  <2>4. TypeOK'
    BY <1>1, <1>3, <2>1, <2>2, <2>3 DEF TypeOK
  <2>5. Recorded' /\ PendingFresh(rec') /\ PendingFresh(recDisk') /\ BoundKnown' /\ WaitKnown'
    BY <1>1, <1>3, <2>2 DEF Recorded, PendingFresh, BoundKnown, WaitKnown
  <2>. QED  BY <2>3, <2>4, <2>5 DEF RegInv
<1>. QED  BY <1>4, <1>5

(* SERVER starts again from its files.                                     *)
LEMMA CrashInv ==
  ASSUME RegInv, Crash
  PROVE  RegInv'
<1>. USE DEF policy, ghosts
<1>1. /\ TypeOK /\ Recorded /\ PendingFresh(recDisk) /\ BoundKnown
  BY DEF RegInv
<1>2. /\ bound' = boundDisk /\ rec' = recDisk /\ pol' = polDisk /\ op' = Idle
      /\ challenges' = {} /\ waiting' = {} /\ crashes < MaxCrashes /\ crashes' = crashes + 1
      /\ UNCHANGED <<inv, boundDisk, recDisk, polDisk, view, stamp, gone,
                     faults, configs, saves>>
  BY DEF Crash
<1>3. crashes' \in 0..MaxCrashes
  BY <1>1, <1>2, RegistryAssumption DEF TypeOK
<1>4. op' \in Op /\ OpFits(op', rec')
  BY <1>2, IdleFits
<1>5. TypeOK'
  BY <1>1, <1>2, <1>3, <1>4 DEF TypeOK
<1>6. Recorded' /\ PendingFresh(rec') /\ PendingFresh(recDisk') /\ WaitKnown'
  BY <1>1, <1>2, NoneAssumption DEF Recorded, PendingFresh, WaitKnown
<1>7. BoundKnown'
  <2>1. \A e \in Devices : rec[e] \in Record => recDisk[e] \in Record
    BY <1>1, NoneAssumption DEF Recorded
  <2>. QED  BY <1>1, <1>2, <2>1 DEF BoundKnown
<1>. QED  BY <1>4, <1>5, <1>6, <1>7 DEF RegInv

LEMMA RegNext == RegInv /\ [Next]_vars => RegInv'
<1>. SUFFICES ASSUME RegInv, [Next]_vars PROVE RegInv'
  OBVIOUS
<1>1. CASE UNCHANGED vars
  BY <1>1 DEF vars, registry, policy, ghosts, bounds, RegInv, TypeOK, Recorded, PendingFresh,
              BoundKnown, WaitKnown
<1>2. CASE Next
  <2>1. ASSUME NEW d \in Devices, Hello(d) PROVE RegInv'
    BY <2>1, HelloInv
  <2>2. ASSUME NEW d \in Devices, NEW n \in Names, Exchange(d, n) \/ Deny(d, n) PROVE RegInv'
    BY <2>2, ComeInv
  <2>3. CASE (\E w \in inv : TakeUp(w)) \/ Duplicate \/ Refuse \/ Wait
    BY <2>3, RestInv
  <2>4. ASSUME NEW o \in Outcomes, Enrol(o) \/ Withdraw(o) PROVE RegInv'
    <3>1. o \in {"ok", "old", "new"}
      BY OutcomeType
    <3>2. CASE Register(o)
      BY <3>1, <3>2, RegisterInv
    <3>3. CASE Enlist(o) \/ Bind(o) \/ Count(o) \/ Settle(o)
      BY <3>1, <3>3, FinishInv
    <3>4. CASE \E u \in BOOLEAN : Answer(u, o)
      BY <3>1, <3>4, AnswerInv
    <3>5. CASE Revoke(o) \/ Remove(o) \/ Unbind(o) \/ Unlist(o)
      BY <3>1, <3>5, WithdrawInv
    <3>6. CASE WriteRows(o)
      BY <3>1, <3>6, DropInv
    <3>. QED  BY <2>4, <3>2, <3>3, <3>4, <3>5, <3>6 DEF Enrol, Withdraw
  <2>5. ASSUME NEW o \in Outcomes, NEW d \in Devices, Wake(d, o) PROVE RegInv'
    BY <2>5, OutcomeType, WakeInv
  <2>6. ASSUME NEW o \in Outcomes, NEW d \in Devices, Drop(d, o) PROVE RegInv'
    BY <2>6, OutcomeType, DropInv
  <2>7. CASE \/ \E d \in Devices : StartRevoke(d)
             \/ GuiRead
             \/ \E m \in Limits, open \in BOOLEAN, o \in Outcomes : Configure(m, open, o)
    BY <2>7, ChooseInv
  <2>8. ASSUME NEW keep \in SUBSET Hosts, NEW more \in SUBSET {Plain(n) : n \in Names},
               SaveInventory(keep, more)
        PROVE  RegInv'
    <3>1. more \in SUBSET Hosts
      BY DEF Hosts
    <3>. QED  BY <2>8, <3>1, ChooseInv
  <2>9. CASE Crash
    BY <2>9, CrashInv
  <2>. QED  BY <1>2, <2>1, <2>2, <2>3, <2>4, <2>5, <2>6, <2>7, <2>8, <2>9 DEF Next
<1>. QED  BY <1>1, <1>2

(* The types of Registry, whatever write fails and wherever SERVER stops. *)
THEOREM TypeCorrect == Spec => []TypeOK
<1>1. Init => RegInv
  BY RegInit
<1>2. RegInv /\ [Next]_vars => RegInv'
  BY RegNext
<1>3. RegInv => TypeOK
  BY DEF RegInv
<1>. QED  BY <1>1, <1>2, <1>3, PTL DEF Spec

-------------------------------------------------------------------------------
(* Names *)

(* Rows of the inventory are added under a name that no row has, or all at *)
(* once with a name each.                                                  *)
LEMMA NamesNext == NamesUnique /\ [Next]_vars => NamesUnique'
<1>. SUFFICES ASSUME NamesUnique, [Next]_vars PROVE NamesUnique'
  OBVIOUS
<1>. USE DEF registry, policy, ghosts, bounds
<1>1. ASSUME NEW o, Enlist(o) PROVE NamesUnique'
  <2>. DEFINE h == Unused(op.host, op.dev)
              w == [host |-> h, agent |-> op.dev]
  <2>1. h \notin HostsOf(inv) /\ inv' = File(o, inv, inv \cup {w})
    BY <1>1 DEF Enlist
  <2>2. w.host = h /\ \A v \in inv : v.host # h
    BY <2>1 DEF HostsOf
  <2>. HIDE DEF h, w
  <2>. QED  BY <2>1, <2>2 DEF NamesUnique, File
<1>2. ASSUME NEW o, WriteRows(o) PROVE NamesUnique'
  BY <1>2 DEF WriteRows, NamesUnique, File
<1>3. ASSUME NEW o, Unlist(o) PROVE NamesUnique'
  BY <1>3 DEF Unlist, NamesUnique, File
<1>4. CASE inv' = inv
  BY <1>4 DEF NamesUnique
<1>5. \/ inv' = inv
      \/ \E o \in Outcomes : Enlist(o) \/ WriteRows(o) \/ Unlist(o)
  BY DEF Next, vars, Hello, Exchange, Deny, TakeUp, Duplicate, Refuse, Wait, Enrol, Withdraw,
         Register, Bind, Count, Settle, Answer, Revoke, Remove, Unbind, Wake, Drop,
         Configure, StartRevoke, GuiRead, SaveInventory, Crash
<1>. QED  BY <1>1, <1>2, <1>3, <1>4, <1>5

(* No name stands for two machines.                                        *)
THEOREM NamesCorrect == Spec => []NamesUnique
<1>1. Init => NamesUnique
  BY DEF Init, NamesUnique
<1>2. NamesUnique /\ [Next]_vars => NamesUnique'
  BY NamesNext
<1>. QED  BY <1>1, <1>2, PTL DEF Spec

-------------------------------------------------------------------------------
(* Devices that were cut off *)

(* A record that is saved from one that was read under the lock is as      *)
(* revoked as that one.                                                    *)
LEMMA SaveKeeps ==
  ASSUME TypeOK, Recorded, NEW e \in Devices, CutOff(e), NEW d \in Devices, NEW r \in Record,
         d = e => r.revoked, NEW o \in {"ok", "old", "new"}, SaveRecord(d, r, o)
  PROVE  CutOff(e)'
<1>1. /\ rec[e] \in Record /\ recDisk[e] \in Record /\ rec[e].revoked /\ recDisk[e].revoked
  BY DEF Recorded, CutOff, Known
<1>2. /\ rec'[e] \in {rec[e], r} /\ recDisk'[e] \in {recDisk[e], r}
      /\ d # e => rec'[e] = rec[e] /\ recDisk'[e] = recDisk[e]
  BY SaveType
<1>3. rec'[e] \in Record /\ rec'[e].revoked /\ recDisk'[e] \in Record /\ recDisk'[e].revoked
  BY <1>1, <1>2
<1>. QED  BY <1>3, NoneAssumption DEF CutOff, Known

LEMMA CutNext ==
  ASSUME RegInv, [Next]_vars, NEW e \in Devices, CutOff(e)
  PROVE  CutOff(e)'
<1>. USE DEF registry, policy, ghosts, bounds
<1>1. TypeOK /\ Recorded /\ OpFits(op, rec) /\ WaitKnown
  BY DEF RegInv
<1>2. rec[e] \in Record /\ recDisk[e] \in Record /\ rec[e].revoked /\ recDisk[e].revoked
  BY <1>1 DEF Recorded, CutOff, Known
<1>3. ASSUME UNCHANGED <<rec, recDisk>> PROVE CutOff(e)'
  BY <1>3 DEF CutOff, Known
<1>4. ASSUME NEW d \in Devices, NEW n \in Names, Exchange(d, n) PROVE CutOff(e)'
  <2>1. CASE d = e
    BY <1>2, <1>4, <2>1, NoneAssumption DEF Exchange, Barred, Known
  <2>2. CASE d # e /\ rec' = Aged(rec, d) /\ recDisk' = Aged(recDisk, d)
    <3>1. rec'[e] = rec[e] /\ recDisk'[e] = recDisk[e]
      BY <1>1, <2>2 DEF Aged, TypeOK
    <3>. QED  BY <3>1 DEF CutOff, Known
  <2>. QED  BY <1>3, <1>4, <2>1, <2>2 DEF Exchange
<1>5. ASSUME NEW o \in {"ok", "old", "new"}, Register(o) PROVE CutOff(e)'
  <2>1. rec[op.dev] = None /\ op.dev \in Devices /\ op.host \in Hosts
    BY <1>1, <1>5 DEF Register, OpFits, Acting, Places
  <2>2. op.dev # e
    BY <1>2, <2>1, NoneAssumption
  <2>3. NewRecord(op.host) \in Record /\ SaveRecord(op.dev, NewRecord(op.host), o)
    BY <1>5, <2>1 DEF NewRecord, Record, Register
  <2>. QED  BY <1>1, <2>1, <2>2, <2>3, SaveKeeps
<1>6. ASSUME NEW o \in {"ok", "old", "new"}, NEW r \in Record, op.dev \in Devices,
             rec[op.dev].revoked => r.revoked, SaveRecord(op.dev, r, o)
      PROVE  CutOff(e)'
  BY <1>1, <1>2, <1>6, SaveKeeps
<1>7. ASSUME op.at \in {"settle", "answer", "revoke", "remove"}
      PROVE  op.dev \in Devices /\ op.host \in Hosts /\ rec[op.dev] \in Record
  BY <1>1, <1>7 DEF OpFits, Acting, Places
<1>8. ASSUME NEW o \in {"ok", "old", "new"}, Settle(o) PROVE CutOff(e)'
  <2>. DEFINE r == [rec[op.dev] EXCEPT !.host = op.host, !.pending = FALSE]
  <2>1. r \in Record /\ r.revoked = rec[op.dev].revoked /\ op.dev \in Devices
    BY <1>7, <1>8 DEF Settle, Record
  <2>2. SaveRecord(op.dev, r, o)
    BY <1>8 DEF Settle
  <2>. HIDE DEF r
  <2>. QED  BY <1>6, <2>1, <2>2
<1>9. ASSUME NEW u \in BOOLEAN, NEW o \in {"ok", "old", "new"}, Answer(u, o) PROVE CutOff(e)'
  <2>. DEFINE r == [rec[op.dev] EXCEPT !.seen = TRUE, !.uninstalled = u]
  <2>1. r \in Record /\ r.revoked = rec[op.dev].revoked /\ op.dev \in Devices
    BY <1>7, <1>9 DEF Answer, Record
  <2>2. SaveRecord(op.dev, r, o)
    BY <1>9 DEF Answer
  <2>. HIDE DEF r
  <2>. QED  BY <1>6, <2>1, <2>2
<1>10. ASSUME NEW o \in {"ok", "old", "new"}, Revoke(o) PROVE CutOff(e)'
  <2>. DEFINE r == [rec[op.dev] EXCEPT !.revoked = TRUE]
  <2>1. r \in Record /\ r.revoked /\ op.dev \in Devices
    BY <1>7, <1>10 DEF Revoke, Record
  <2>2. SaveRecord(op.dev, r, o)
    BY <1>10 DEF Revoke
  <2>. HIDE DEF r
  <2>. QED  BY <1>6, <2>1, <2>2
<1>11. ASSUME NEW o, Remove(o) PROVE CutOff(e)'
  <2>. DEFINE r == [rec[op.dev] EXCEPT !.removed = TRUE]
  <2>1. r \in Record /\ r.revoked = rec[op.dev].revoked /\ op.dev \in Devices
    BY <1>7, <1>11 DEF Remove, Record
  <2>2. rec' = [rec EXCEPT ![op.dev] = r]
    BY <1>11 DEF Remove
  <2>. HIDE DEF r
  <2>3. rec'[op.dev] = r
    BY <1>1, <2>1, <2>2 DEF TypeOK
  <2>4. recDisk' = [recDisk EXCEPT ![op.dev] = File(o, recDisk[op.dev], rec'[op.dev])]
    BY <1>11, Zenon DEF Remove
  <2>5. /\ e # op.dev => rec'[e] = rec[e] /\ recDisk'[e] = recDisk[e]
        /\ recDisk'[op.dev] \in {recDisk[op.dev], r}
    BY <1>1, <2>1, <2>2, <2>3, <2>4 DEF TypeOK, File
  <2>6. rec'[e] \in Record /\ rec'[e].revoked /\ recDisk'[e] \in Record /\ recDisk'[e].revoked
    BY <1>2, <2>1, <2>3, <2>5
  <2>. QED  BY <2>6, NoneAssumption DEF CutOff, Known
<1>12. ASSUME NEW d \in Devices, NEW o \in {"ok", "old", "new"}, Wake(d, o) PROVE CutOff(e)'
  <2>1. rec[d] \in Record
    BY <1>1, <1>12 DEF Wake, WaitKnown
  <2>. QED  BY <1>1, <1>2, <1>3, <1>12, <2>1, SaveKeeps DEF Wake
<1>13. ASSUME NEW d \in Devices, NEW o \in {"ok", "old", "new"}, Drop(d, o) PROVE CutOff(e)'
  <2>. DEFINE r == [rec[d] EXCEPT !.revoked = TRUE]
  <2>1. rec[d] \in Record
    BY <1>1, <1>13 DEF Drop, OpFits
  <2>2. r \in Record /\ r.revoked
    BY <2>1 DEF Record
  <2>3. SaveRecord(d, r, o)
    BY <1>13 DEF Drop
  <2>. HIDE DEF r
  <2>. QED  BY <1>1, <2>2, <2>3, SaveKeeps
<1>14. ASSUME Crash PROVE CutOff(e)'
  BY <1>2, <1>14, NoneAssumption DEF Crash, CutOff, Known
<1>15. \A o \in Outcomes : o \in {"ok", "old", "new"}
  BY OutcomeType
<1>16. \/ UNCHANGED <<rec, recDisk>>
       \/ \E d \in Devices, n \in Names : Exchange(d, n)
       \/ \E o \in Outcomes : \/ Register(o) \/ Settle(o) \/ Revoke(o) \/ Remove(o)
                              \/ \E u \in BOOLEAN : Answer(u, o)
                              \/ \E d \in Devices : Wake(d, o) \/ Drop(d, o)
       \/ Crash
  BY DEF Next, vars, Hello, Deny, TakeUp, Duplicate, Refuse, Wait, Enrol, Withdraw,
         Enlist, Bind, Count, Unbind, Unlist, WriteRows, Configure, StartRevoke, GuiRead,
         SaveInventory
<1>. QED  BY <1>3, <1>4, <1>5, <1>8, <1>9, <1>10, <1>11, <1>12, <1>13, <1>14, <1>15, <1>16

(* A device that was cut off in memory and on disk stays so, although a    *)
(* request of it may have been waiting while the operator acted.           *)
THEOREM CutOffHolds == Spec => CutOffForGood
<1>1. Init => RegInv
  BY RegInit
<1>2. RegInv /\ [Next]_vars => RegInv'
  BY RegNext
<1>3. RegInv /\ [Next]_vars => [\A d \in Devices : CutOff(d) => CutOff(d)']_vars
  BY CutNext
<1>. QED  BY <1>1, <1>2, <1>3, PTL DEF Spec, CutOffForGood

-------------------------------------------------------------------------------
(* Records *)

(* What the machine of a name calls itself, and the names that are a device's own: as the       *)
(* machine calls itself, or with a suffix of the device.                                        *)
Called(h) == h[1]
OwnName(d, h) == h = Plain(h[1]) \/ h[2] = d

(* The record of d in memory, m, and on disk, k.                                                *)
Agree(d, m, k) ==
  /\ m.revoked => k.revoked
  /\ m.removed => m.revoked
  /\ k.removed => k = m
  /\ k.pending => m.pending
  /\ Called(k.host) = Called(m.host)
  /\ OwnName(d, m.host) /\ OwnName(d, k.host)
RecordsAgree == \A d \in Devices : rec[d] \in Record => Agree(d, rec[d], recDisk[d])

(* What a step keeps of a record.                                                               *)
Kept(d) ==
  /\ rec'[d] \in Record /\ recDisk'[d] \in Record
  /\ rec[d].revoked => rec'[d].revoked
  /\ rec'[d].pending => rec[d].pending
  /\ recDisk[d].removed => recDisk'[d].removed /\ recDisk'[d].host = recDisk[d].host
  /\ Called(rec'[d].host) = Called(rec[d].host)

(* A record was there before, but for the beginning of the registration.  One that is complete  *)
(* was so before, under the same name, but for its end.                                         *)
Complete(d) ==
  /\ rec[d] \in Record \/ (op.at = "register" /\ op.dev = d)
  /\ \A x \in {rec'[d], recDisk'[d]} : ~x.pending =>
       \/ rec[d] \in Record /\ \E y \in {rec[d], recDisk[d]} : ~y.pending /\ y.host = x.host
       \/ op.at = "settle" /\ op.dev = d /\ x.host = op.host

RecordStep ==
  /\ RecordsAgree'
  /\ \A d \in Devices : /\ rec[d] \in Record => Kept(d)
                        /\ rec'[d] \in Record => Complete(d)

LEMMA SameRecords ==
  ASSUME RegInv, RecordsAgree, UNCHANGED <<rec, recDisk>>
  PROVE  RecordStep
<1>1. \A d \in Devices : rec[d] \in Record => recDisk[d] \in Record
  BY NoneAssumption DEF RegInv, Recorded
<1>. QED  BY <1>1 DEF RecordsAgree, RecordStep, Kept, Complete

LEMMA SaveAgrees ==
  ASSUME RegInv, RecordsAgree, NEW d \in Devices, NEW r \in Record,
         NEW o \in {"ok", "old", "new"}, SaveRecord(d, r, o),
         OwnName(d, r.host), r.removed => r.revoked,
         rec[d] = None => /\ r.pending /\ ~r.removed /\ ~r.revoked
                          /\ op.at = "register" /\ op.dev = d,
         rec[d] \in Record =>
           /\ rec[d].revoked => r.revoked
           /\ r.removed = rec[d].removed /\ (rec[d].removed => r = rec[d])
           /\ r.pending => rec[d].pending
           /\ Called(r.host) = Called(rec[d].host)
           /\ \/ r.pending
              \/ ~rec[d].pending /\ r.host = rec[d].host
              \/ op.at = "settle" /\ op.dev = d /\ r.host = op.host
  PROVE  RecordStep
<1>1. TypeOK /\ Recorded
  BY DEF RegInv
<1>2. /\ Recorded'
      /\ \A e \in Devices \ {d} : rec'[e] = rec[e] /\ recDisk'[e] = recDisk[e]
      /\ rec'[d] \in {rec[d], r} /\ recDisk'[d] \in {recDisk[d], r}
      /\ o = "ok" => rec'[d] = r /\ recDisk'[d] = r
  BY <1>1, SaveType
<1>3. \A e \in Devices : rec[e] \in Record => recDisk[e] \in Record
  BY <1>1, NoneAssumption DEF Recorded
<1>4. ASSUME NEW e \in Devices, e # d
      PROVE  /\ rec'[e] \in Record => Agree(e, rec'[e], recDisk'[e]) /\ Complete(e)
             /\ rec[e] \in Record => Kept(e)
  BY <1>2, <1>3, <1>4 DEF RecordsAgree, Kept, Complete
<1>5. CASE rec[d] = None
  <2>1. rec'[d] \in Record => rec'[d] = r /\ recDisk'[d] = r
    BY <1>1, <1>2, <1>5, NoneAssumption DEF Recorded
  <2>2. rec'[d] \in Record => Agree(d, rec'[d], recDisk'[d]) /\ Complete(d)
    BY <2>1, <1>5 DEF Agree, Complete
  <2>. QED  BY <1>4, <1>5, <2>2, NoneAssumption DEF RecordsAgree, RecordStep
<1>6. CASE rec[d] \in Record
  <2>1. /\ rec'[d] = rec[d] \/ (rec'[d] = r /\ recDisk'[d] = r)
        /\ rec'[d] \in Record /\ recDisk'[d] \in Record /\ recDisk[d] \in Record
        /\ Agree(d, rec[d], recDisk[d])
    <3>1. o # "ok" => rec'[d] = rec[d]
      BY <1>1, <1>6, NoneAssumption DEF SaveRecord, TypeOK
    <3>. QED  BY <1>2, <1>3, <1>6, <3>1 DEF RecordsAgree
  <2>2. Agree(d, rec'[d], recDisk'[d])
    BY <1>2, <1>6, <2>1 DEF Agree
  <2>3. Kept(d) /\ Complete(d)
    BY <1>2, <1>6, <2>1 DEF Agree, Kept, Complete
  <2>. QED  BY <1>4, <2>2, <2>3 DEF RecordsAgree, RecordStep
<1>. QED  BY <1>1, <1>5, <1>6 DEF Recorded

LEMMA AgesAgree ==
  ASSUME RegInv, RecordsAgree, NEW d \in Devices, NEW n \in Names, Exchange(d, n)
  PROVE  RecordStep
<1>1. CASE UNCHANGED <<rec, recDisk>>
  BY <1>1, SameRecords
<1>2. CASE rec[d] # None /\ rec' = Aged(rec, d) /\ recDisk' = Aged(recDisk, d)
  <2>1. rec[d] \in Record /\ recDisk[d] \in Record /\ TypeOK
    BY <1>2 DEF RegInv, Recorded
  <2>. DEFINE m == [rec[d] EXCEPT !.seen = FALSE]
              k == [recDisk[d] EXCEPT !.seen = FALSE]
  <2>2. /\ m \in Record /\ k \in Record
        /\ m.revoked = rec[d].revoked /\ m.removed = rec[d].removed
        /\ m.pending = rec[d].pending /\ m.host = rec[d].host
        /\ k.revoked = recDisk[d].revoked /\ k.removed = recDisk[d].removed
        /\ k.pending = recDisk[d].pending /\ k.host = recDisk[d].host
    BY <2>1 DEF Record
  <2>3. rec' = [rec EXCEPT ![d] = m] /\ recDisk' = [recDisk EXCEPT ![d] = k]
    BY <1>2, <2>1, NoneAssumption DEF Aged
  <2>. HIDE DEF m, k
  <2>4. /\ rec'[d] = m /\ recDisk'[d] = k
        /\ \A e \in Devices \ {d} : rec'[e] = rec[e] /\ recDisk'[e] = recDisk[e]
    BY <2>1, <2>3 DEF TypeOK
  <2>5. ~rec[d].revoked
    BY <1>2 DEF Exchange, Barred, Known
  <2>6. Agree(d, rec[d], recDisk[d])
    BY <2>1 DEF RecordsAgree
  <2>7. Agree(d, m, k) /\ Kept(d) /\ Complete(d)
    BY <2>1, <2>2, <2>4, <2>5, <2>6 DEF Agree, Kept, Complete
  <2>8. ASSUME NEW e \in Devices, e # d, rec'[e] \in Record
        PROVE  Agree(e, rec'[e], recDisk'[e]) /\ Complete(e) /\ Kept(e)
    <3>1. recDisk[e] \in Record
      BY <2>4, <2>8, NoneAssumption DEF RegInv, Recorded
    <3>. QED  BY <2>4, <2>8, <3>1 DEF RecordsAgree, Complete, Kept
  <2>. QED  BY <2>4, <2>7, <2>8 DEF RecordsAgree, RecordStep
<1>. QED  BY <1>1, <1>2 DEF Exchange, Known

LEMMA RegisterAgrees ==
  ASSUME RegInv, RecordsAgree, NEW o \in {"ok", "old", "new"}, Register(o),
         OwnName(op.dev, op.host)
  PROVE  RecordStep
<1>1. rec[op.dev] = None /\ op.dev \in Devices /\ op.host \in Hosts
  BY DEF RegInv, Register, OpFits, Acting, Places
<1>. DEFINE r == NewRecord(op.host)
<1>2. r \in Record /\ r.pending /\ ~r.removed /\ ~r.revoked /\ r.host = op.host
  BY <1>1 DEF NewRecord, Record
<1>3. SaveRecord(op.dev, r, o) /\ op.at = "register"
  BY DEF Register
<1>. HIDE DEF r
<1>. QED  BY <1>1, <1>2, <1>3, NoneAssumption, SaveAgrees

(* The handler saves a record that it made of the one it had read.                              *)
LEMMA HandlerAgrees ==
  ASSUME RegInv, RecordsAgree, NEW o \in {"ok", "old", "new"}, NEW u \in BOOLEAN,
         Settle(o) \/ Answer(u, o) \/ Revoke(o),
         op.at = "settle" => OwnName(op.dev, op.host) /\ Called(op.host) = Called(rec[op.dev].host),
         op.at \in {"settle", "answer"} => ~rec[op.dev].revoked
  PROVE  RecordStep
<1>1. op.dev \in Devices /\ op.host \in Hosts /\ rec[op.dev] \in Record
  BY DEF RegInv, Settle, Answer, Revoke, OpFits, Acting, Places
<1>2. Agree(op.dev, rec[op.dev], recDisk[op.dev])
  BY <1>1 DEF RecordsAgree
<1>3. CASE Settle(o)
  <2>. DEFINE r == [rec[op.dev] EXCEPT !.host = op.host, !.pending = FALSE]
  <2>1. /\ r \in Record /\ ~r.pending /\ r.removed = rec[op.dev].removed
        /\ r.revoked = rec[op.dev].revoked /\ r.host = op.host
    BY <1>1 DEF Record
  <2>2. SaveRecord(op.dev, r, o) /\ op.at = "settle" /\ ~rec[op.dev].removed
    BY <1>2, <1>3 DEF Settle, Agree
  <2>. HIDE DEF r
  <2>. QED  BY <1>1, <1>2, <2>1, <2>2, NoneAssumption, SaveAgrees DEF Agree
<1>4. CASE Answer(u, o)
  <2>. DEFINE r == [rec[op.dev] EXCEPT !.seen = TRUE, !.uninstalled = u]
  <2>1. /\ r \in Record /\ r.pending = rec[op.dev].pending /\ r.removed = rec[op.dev].removed
        /\ r.revoked = rec[op.dev].revoked /\ r.host = rec[op.dev].host
    BY <1>1 DEF Record
  <2>2. SaveRecord(op.dev, r, o) /\ op.at = "answer" /\ ~rec[op.dev].removed
    BY <1>2, <1>4 DEF Answer, Agree
  <2>. HIDE DEF r
  <2>. QED  BY <1>1, <1>2, <2>1, <2>2, NoneAssumption, SaveAgrees DEF Agree
<1>5. CASE Revoke(o)
  <2>. DEFINE r == [rec[op.dev] EXCEPT !.revoked = TRUE]
  <2>1. /\ r \in Record /\ r.pending = rec[op.dev].pending /\ r.removed = rec[op.dev].removed
        /\ r.revoked /\ r.host = rec[op.dev].host
        /\ rec[op.dev].revoked => r = rec[op.dev]
    BY <1>1 DEF Record
  <2>2. SaveRecord(op.dev, r, o)
    BY <1>5 DEF Revoke
  <2>. HIDE DEF r
  <2>. QED  BY <1>1, <1>2, <2>1, <2>2, NoneAssumption, SaveAgrees DEF Agree
<1>. QED  BY <1>3, <1>4, <1>5

LEMMA RemoveAgrees ==
  ASSUME RegInv, RecordsAgree, NEW o \in {"ok", "old", "new"}, Remove(o), rec[op.dev].revoked
  PROVE  RecordStep
<1>1. op.dev \in Devices /\ rec[op.dev] \in Record /\ TypeOK
  BY DEF RegInv, Remove, OpFits, Acting, Places
<1>2. Agree(op.dev, rec[op.dev], recDisk[op.dev]) /\ recDisk[op.dev] \in Record
  BY <1>1, NoneAssumption DEF RecordsAgree, RegInv, Recorded
<1>. DEFINE r == [rec[op.dev] EXCEPT !.removed = TRUE]
<1>3. /\ r \in Record /\ r.pending = rec[op.dev].pending /\ r.removed
      /\ r.revoked = rec[op.dev].revoked /\ r.host = rec[op.dev].host
      /\ rec[op.dev].removed => r = rec[op.dev]
  BY <1>1 DEF Record
<1>4. rec' = [rec EXCEPT ![op.dev] = r]
  BY DEF Remove
<1>. HIDE DEF r
<1>5. rec'[op.dev] = r /\ \A e \in Devices \ {op.dev} : rec'[e] = rec[e]
  BY <1>1, <1>4 DEF TypeOK
<1>6. recDisk' = [recDisk EXCEPT ![op.dev] = File(o, recDisk[op.dev], rec'[op.dev])]
  BY Zenon DEF Remove
<1>7. /\ recDisk'[op.dev] \in {recDisk[op.dev], r}
      /\ \A e \in Devices \ {op.dev} : recDisk'[e] = recDisk[e]
  BY <1>1, <1>5, <1>6 DEF TypeOK, File
<1>8. Agree(op.dev, rec'[op.dev], recDisk'[op.dev]) /\ Kept(op.dev) /\ Complete(op.dev)
  BY <1>1, <1>2, <1>3, <1>5, <1>7 DEF Agree, Kept, Complete
<1>9. ASSUME NEW e \in Devices, e # op.dev, rec'[e] \in Record
      PROVE  Agree(e, rec'[e], recDisk'[e]) /\ Complete(e) /\ Kept(e)
  <2>1. recDisk[e] \in Record
    BY <1>5, <1>9, NoneAssumption DEF RegInv, Recorded
  <2>. QED  BY <1>5, <1>7, <1>9, <2>1 DEF RecordsAgree, Complete, Kept
<1>. QED  BY <1>5, <1>8, <1>9 DEF RecordsAgree, RecordStep

(* A wait ends or a device is dropped from the list.                                            *)
LEMMA OthersAgree ==
  ASSUME RegInv, RecordsAgree, NEW o \in {"ok", "old", "new"}, NEW d \in Devices,
         Wake(d, o) \/ Drop(d, o)
  PROVE  RecordStep
<1>1. rec[d] \in Record
  BY DEF RegInv, WaitKnown, OpFits, Wake, Drop
<1>2. Agree(d, rec[d], recDisk[d])
  BY <1>1 DEF RecordsAgree
<1>3. CASE Wake(d, o) /\ rec[d].revoked
  BY <1>3, SameRecords DEF Wake
<1>4. CASE Wake(d, o) /\ ~rec[d].revoked
  <2>1. SaveRecord(d, rec[d], o)
    BY <1>4 DEF Wake
  <2>. QED  BY <1>1, <1>2, <1>4, <2>1, NoneAssumption, SaveAgrees DEF Agree
<1>5. CASE Drop(d, o)
  <2>. DEFINE r == [rec[d] EXCEPT !.revoked = TRUE]
  <2>1. /\ r \in Record /\ r.pending = rec[d].pending /\ r.removed = rec[d].removed
        /\ r.revoked /\ r.host = rec[d].host
        /\ rec[d].revoked => r = rec[d]
    BY <1>1 DEF Record
  <2>2. SaveRecord(d, r, o)
    BY <1>5 DEF Drop
  <2>. HIDE DEF r
  <2>. QED  BY <1>1, <1>2, <2>1, <2>2, NoneAssumption, SaveAgrees DEF Agree
<1>. QED  BY <1>3, <1>4, <1>5

(* SERVER starts from the records on disk.                                                      *)
LEMMA CrashAgrees ==
  ASSUME RegInv, RecordsAgree, Crash
  PROVE  RecordStep
<1>1. rec' = recDisk /\ recDisk' = recDisk
  BY DEF Crash
<1>2. ASSUME NEW d \in Devices, rec'[d] \in Record
      PROVE  Agree(d, rec'[d], recDisk'[d]) /\ Kept(d) /\ Complete(d) /\ rec[d] \in Record
  <2>1. rec[d] \in Record /\ recDisk[d] \in Record
    BY <1>1, <1>2, NoneAssumption DEF RegInv, Recorded
  <2>2. Agree(d, rec[d], recDisk[d])
    BY <2>1 DEF RecordsAgree
  <2>. QED  BY <1>1, <2>1, <2>2 DEF Agree, Kept, Complete
<1>3. \A d \in Devices : rec[d] \in Record => rec'[d] \in Record
  BY <1>1, NoneAssumption DEF RegInv, Recorded
<1>. QED  BY <1>2, <1>3 DEF RecordsAgree, RecordStep

-------------------------------------------------------------------------------
(* Handlers *)

Live(d) == rec[d] \in Record /\ ~rec[d].revoked
Own(d, h) == rec[d] \in Record /\ OwnName(d, h) /\ Called(h) = Called(rec[d].host)

Enrolling == {"enlist", "bind", "count", "settle"}

(* What a handler has brought about when it comes to a place.                                   *)
OpKnows ==
  /\ op.at = "register" => op.host \notin HostsOf(inv) /\ OwnName(op.dev, op.host)
  /\ op.at \in Enrolling \cup {"answer"} => Live(op.dev)
  /\ op.at \in Enrolling => rec[op.dev].pending /\ Own(op.dev, op.host)
  /\ op.at = "bind" =>
       \E w \in inv : w.host = op.host /\ (w.agent = op.dev \/ bound[w.host] = op.dev)
  /\ op.at \in {"count", "settle"} => bound[op.host] = op.dev /\ boundDisk[op.host] = op.dev
  /\ op.at = "settle" => pol = polDisk /\ stamp[op.dev] = pol.epoch
  /\ op.at \in {"revoke", "remove", "unbind", "unlist"} => rec[op.dev].host = op.host
  /\ op.at = "remove" => rec[op.dev].revoked
  /\ op.at \in {"unbind", "unlist"} => recDisk[op.dev].removed
  /\ op.at = "unlist" => bound[op.host] = None /\ boundDisk[op.host] = None
  /\ op.at = "drop" => \A h \in Hosts \ op.names :
                         bound[h] \in Devices => bound[h] \in op.todo \/ rec[bound[h]].revoked

(* Names are bound to, and rows carry, only devices whose own they are.                         *)
OwnNames ==
  /\ \A h \in Hosts : /\ bound[h] # None => Own(bound[h], h)
                      /\ boundDisk[h] # None => Own(boundDisk[h], h)
  /\ \A w \in inv : w.agent # None => Own(w.agent, w.host)

LEMMA FirstNameOwn ==
  ASSUME NEW d, NEW n
  PROVE  OwnName(d, Unused(Plain(n), d))
<1>1. Plain(n) = <<n, None, 0>> /\ Suffixed(Plain(n), d) = <<n, d, 1>>
  BY DEF Plain, Suffixed
<1>2. OwnName(d, <<n, None, 0>>) /\ OwnName(d, <<n, d, 1>>)
  BY DEF OwnName, Plain
<1>. QED  BY <1>1, <1>2 DEF Unused

LEMMA NextNameOwn ==
  ASSUME NEW d \in Devices, NEW h \in Hosts, OwnName(d, h)
  PROVE  OwnName(d, Unused(h, d)) /\ Called(Unused(h, d)) = Called(h)
<1>1. Suffixed(h, d) = <<h[1], d, h[3] + 1>>
  BY DEF Suffixed
<1>2. OwnName(d, Suffixed(h, d)) /\ Called(Suffixed(h, d)) = Called(h)
  BY <1>1 DEF OwnName, Called
<1>. QED  BY <1>2 DEF Unused

(* A handler that ends, or none at work.                                                        *)
LEMMA IdleKnows ==
  ASSUME op'.at = "idle"
  PROVE  OpKnows'
  BY DEF OpKnows, Enrolling

LEMMA ComeKnows ==
  ASSUME RegInv, RecordsAgree, NEW d \in Devices, NEW n \in Names, Exchange(d, n)
  PROVE  OpKnows'
<1>1. CASE /\ op' = Step("register", d, Unused(Plain(n), d))
           /\ Unused(Plain(n), d) \notin HostsOf(inv)
  <2>1. op'.at = "register" /\ op'.dev = d /\ op'.host = Unused(Plain(n), d)
    BY <1>1 DEF Step
  <2>2. inv' = inv
    BY DEF Exchange
  <2>. QED  BY <1>1, <2>1, <2>2, FirstNameOwn DEF OpKnows, Enrolling, HostsOf
<1>2. CASE /\ rec[d] # None /\ rec' = Aged(rec, d)
           /\ op' = Step(IF rec[d].pending THEN "enlist" ELSE "answer", d, rec[d].host)
  <2>1. rec[d] \in Record /\ ~rec[d].revoked /\ Agree(d, rec[d], recDisk[d]) /\ TypeOK
    BY <1>2, NoneAssumption DEF Exchange, Barred, Known, RegInv, Recorded, RecordsAgree
  <2>. DEFINE m == [rec[d] EXCEPT !.seen = FALSE]
  <2>2. m \in Record /\ ~m.revoked /\ m.pending = rec[d].pending /\ m.host = rec[d].host
    BY <2>1 DEF Record
  <2>3. rec' = [rec EXCEPT ![d] = m]
    BY <1>2, <2>1, NoneAssumption DEF Aged
  <2>. HIDE DEF m
  <2>4. rec'[d] = m
    BY <2>1, <2>3 DEF TypeOK
  <2>5. /\ op'.dev = d /\ op'.host = rec[d].host
        /\ op'.at = IF rec[d].pending THEN "enlist" ELSE "answer"
    BY <1>2 DEF Step
  <2>6. Live(d)' /\ Own(d, rec[d].host)'
    BY <2>1, <2>2, <2>4 DEF Live, Own, Agree
  <2>7. CASE op'.at = "enlist"
    <3>1. rec'[d].pending /\ Own(d, op.host)'
      BY <2>1, <2>2, <2>4, <2>5, <2>6, <2>7 DEF Own, Agree
    <3>. QED  BY <2>5, <2>6, <2>7, <3>1 DEF OpKnows, Enrolling
  <2>8. CASE op'.at = "answer"
    BY <2>5, <2>6, <2>8 DEF OpKnows, Enrolling
  <2>. QED  BY <2>5, <2>7, <2>8
<1>. QED  BY <1>1, <1>2 DEF Exchange, Known

(* The steps of an enrolment.                                                                   *)
LEMMA RegisterKnows ==
  ASSUME RegInv, OpKnows, NEW o \in {"ok", "old", "new"}, Register(o)
  PROVE  OpKnows'
<1>1. /\ rec[op.dev] = None /\ op.dev \in Devices /\ op.host \in Hosts /\ TypeOK
      /\ OwnName(op.dev, op.host)
  BY DEF RegInv, Register, OpFits, Acting, Places, OpKnows
<1>. DEFINE r == NewRecord(op.host)
<1>2. r \in Record /\ r.pending /\ ~r.revoked /\ r.host = op.host
  BY <1>1 DEF NewRecord, Record
<1>3. SaveRecord(op.dev, r, o) /\ GoOn(o, Step("enlist", op.dev, op.host))
  BY DEF Register
<1>. HIDE DEF r
<1>4. CASE o = "ok"
  <2>1. rec'[op.dev] = r
    BY <1>1, <1>2, <1>3, <1>4, SaveType DEF RegInv
  <2>2. op'.at = "enlist" /\ op'.dev = op.dev /\ op'.host = op.host
    BY <1>3, <1>4 DEF GoOn, Step
  <2>. QED  BY <1>1, <1>2, <2>1, <2>2 DEF OpKnows, Enrolling, Live, Own
<1>. QED  BY <1>3, <1>4, IdleKnows DEF GoOn, Idle

LEMMA EnlistKnows ==
  ASSUME RegInv, OpKnows, OwnNames, NEW o \in {"ok", "old", "new"},
         Enlist(o) \/ \E w \in inv : TakeUp(w)
  PROVE  OpKnows'
<1>1. /\ op.at = "enlist" /\ op.dev \in Devices /\ op.host \in FreshHosts /\ op.host \in Hosts
      /\ Live(op.dev) /\ rec[op.dev].pending /\ Own(op.dev, op.host) /\ TypeOK
      /\ UNCHANGED <<rec, bound>>
  BY DEF RegInv, Enlist, TakeUp, OpFits, Acting, Places, OpKnows, Enrolling, registry
<1>2. ASSUME NEW w \in inv, TakeUp(w) PROVE OpKnows'
  <2>1. op'.at = "bind" /\ op'.dev = op.dev /\ op'.host = w.host /\ inv' = inv
    BY <1>2 DEF TakeUp, Step, registry
  <2>2. w.host \in Hosts /\ (w.agent = op.dev \/ bound[w.host] = op.dev)
    BY <1>1, <1>2 DEF TakeUp, Mine, TypeOK, Row
  <2>3. Own(op.dev, w.host)
    BY <1>1, <2>2, RegistryAssumption DEF OwnNames
  <2>. QED  BY <1>1, <2>1, <2>2, <2>3 DEF OpKnows, Enrolling, Live, Own
<1>3. CASE Enlist(o)
  <2>. DEFINE h == Unused(op.host, op.dev)
              w == [host |-> h, agent |-> op.dev]
  <2>1. Own(op.dev, h)
    BY <1>1, NextNameOwn DEF Own
  <2>2. inv' = File(o, inv, inv \cup {w}) /\ GoOn(o, Step("bind", op.dev, h))
    BY <1>3 DEF Enlist
  <2>3. w.host = h /\ w.agent = op.dev
    OBVIOUS
  <2>. HIDE DEF w, h
  <2>4. CASE o = "ok"
    <3>1. w \in inv' /\ op'.at = "bind" /\ op'.dev = op.dev /\ op'.host = h
      BY <2>2, <2>4 DEF File, GoOn, Step
    <3>. QED  BY <1>1, <2>1, <2>3, <3>1 DEF OpKnows, Enrolling, Live, Own
  <2>. QED  BY <2>2, <2>4, IdleKnows DEF GoOn, Idle
<1>. QED  BY <1>2, <1>3

LEMMA FinishKnows ==
  ASSUME RegInv, OpKnows, NEW o \in {"ok", "old", "new"}, NEW u \in BOOLEAN,
         Bind(o) \/ Count(o) \/ Settle(o) \/ Answer(u, o)
  PROVE  OpKnows'
<1>1. /\ op.at \in {"bind", "count", "settle", "answer"} /\ op.dev \in Devices /\ op.host \in Hosts
      /\ Live(op.dev) /\ TypeOK
      /\ op.at # "answer" => rec[op.dev].pending /\ Own(op.dev, op.host)
  BY DEF RegInv, Bind, Count, Settle, Answer, OpFits, Acting, Places, OpKnows, Enrolling
<1>2. CASE op'.at = "idle"
  BY <1>2, IdleKnows
<1>3. CASE Bind(o) /\ o = "ok"
  <2>1. /\ op'.at = "count" /\ op'.dev = op.dev /\ op'.host = op.host
        /\ bound' = [bound EXCEPT ![op.host] = op.dev] /\ boundDisk' = bound' /\ rec' = rec
    BY <1>3 DEF Bind, GoOn, Step, File
  <2>2. bound'[op.host] = op.dev /\ boundDisk'[op.host] = op.dev
    BY <1>1, <2>1 DEF TypeOK
  <2>3. op.at # "answer"
    BY <1>3 DEF Bind
  <2>. QED  BY <1>1, <2>1, <2>2, <2>3 DEF OpKnows, Enrolling, Live, Own
<1>4. CASE Count(o) /\ o = "ok"
  <2>1. /\ op'.at = "settle" /\ op'.dev = op.dev /\ op'.host = op.host
        /\ UNCHANGED <<rec, bound, boundDisk>> /\ polDisk' = pol'
        /\ pol' = [pol EXCEPT !.used = @ + 1]
        /\ stamp' = [stamp EXCEPT ![op.dev] = pol.epoch]
    BY <1>4 DEF Count, GoOn, Step, File, registry
  <2>2. stamp'[op.dev] = pol'.epoch
    BY <1>1, <2>1 DEF TypeOK, Policy
  <2>3. op.at = "count"
    BY <1>4 DEF Count
  <2>. QED  BY <1>1, <2>1, <2>2, <2>3 DEF OpKnows, Enrolling, Live, Own
<1>5. CASE Settle(o) /\ o = "ok"
  <2>. DEFINE r == [rec[op.dev] EXCEPT !.host = op.host, !.pending = FALSE]
  <2>1. r \in Record /\ ~r.revoked
    BY <1>1 DEF Live, Record
  <2>2. SaveRecord(op.dev, r, o)
    BY <1>5 DEF Settle
  <2>. HIDE DEF r
  <2>3. rec'[op.dev] = r
    BY <1>1, <1>5, <2>1, <2>2, SaveType DEF RegInv
  <2>4. op'.at = "answer" /\ op'.dev = op.dev
    BY <1>5 DEF Settle, GoOn, Step
  <2>. QED  BY <2>1, <2>3, <2>4 DEF OpKnows, Enrolling, Live
<1>. QED  BY <1>2, <1>3, <1>4, <1>5 DEF Bind, Count, Settle, Answer, GoOn, Idle

(* The steps of a removal.                                                                      *)
LEMMA WithdrawKnows ==
  ASSUME RegInv, RecordsAgree, OpKnows, NEW o \in {"ok", "old", "new"},
         Revoke(o) \/ Remove(o) \/ Unbind(o) \/ Unlist(o)
  PROVE  OpKnows'
<1>1. /\ op.at \in {"revoke", "remove", "unbind", "unlist"}
      /\ op.dev \in Devices /\ op.host \in Hosts /\ rec[op.dev] \in Record
      /\ rec[op.dev].host = op.host /\ TypeOK
  BY DEF RegInv, Revoke, Remove, Unbind, Unlist, OpFits, Acting, Places, OpKnows
<1>2. CASE op'.at = "idle"
  BY <1>2, IdleKnows
<1>3. CASE Revoke(o) /\ o = "ok" /\ op' = Step("remove", op.dev, op.host)
  <2>. DEFINE r == [rec[op.dev] EXCEPT !.revoked = TRUE]
  <2>1. r \in Record /\ r.revoked /\ r.host = op.host
    BY <1>1 DEF Record
  <2>2. SaveRecord(op.dev, r, o)
    BY <1>3 DEF Revoke
  <2>. HIDE DEF r
  <2>3. rec'[op.dev] = r
    BY <1>1, <1>3, <2>1, <2>2, SaveType DEF RegInv
  <2>4. op'.at = "remove" /\ op'.dev = op.dev /\ op'.host = op.host
    BY <1>3 DEF Step
  <2>. QED  BY <2>1, <2>3, <2>4 DEF OpKnows, Enrolling
<1>4. CASE Remove(o) /\ o = "ok"
  <2>. DEFINE r == [rec[op.dev] EXCEPT !.removed = TRUE]
  <2>1. r \in Record /\ r.removed /\ r.host = op.host
    BY <1>1 DEF Record
  <2>2. rec' = [rec EXCEPT ![op.dev] = r]
    BY <1>4 DEF Remove
  <2>. HIDE DEF r
  <2>3. rec'[op.dev] = r
    BY <1>1, <2>2 DEF TypeOK
  <2>4. recDisk' = [recDisk EXCEPT ![op.dev] = File(o, recDisk[op.dev], rec'[op.dev])]
    BY <1>4, Zenon DEF Remove
  <2>5. recDisk'[op.dev] = r
    BY <1>1, <1>4, <2>3, <2>4 DEF TypeOK, File
  <2>6. op'.at = "unbind" /\ op'.dev = op.dev /\ op'.host = op.host
    BY <1>4 DEF Remove, GoOn, Step
  <2>. QED  BY <2>1, <2>3, <2>5, <2>6 DEF OpKnows, Enrolling
<1>5. CASE Unbind(o) /\ o = "ok"
  <2>1. /\ op'.at = "unlist" /\ op'.dev = op.dev /\ op'.host = op.host
        /\ bound' = [bound EXCEPT ![op.host] = None] /\ boundDisk' = bound'
        /\ UNCHANGED <<rec, recDisk>> /\ op.at = "unbind"
    BY <1>5 DEF Unbind, GoOn, Step, File
  <2>2. bound'[op.host] = None /\ boundDisk'[op.host] = None
    BY <1>1, <2>1 DEF TypeOK
  <2>. QED  BY <1>1, <2>1, <2>2 DEF OpKnows, Enrolling
<1>. QED  BY <1>2, <1>3, <1>4, <1>5 DEF Revoke, Remove, Unbind, Unlist, GoOn, Idle

(* A handler begins on behalf of an operator, or drops a device.                                *)
LEMMA OperatorKnows ==
  ASSUME RegInv, OpKnows, RecordStep,
         \/ \E d \in Devices : StartRevoke(d) \/ \E o \in {"ok", "old", "new"} : Drop(d, o)
         \/ \E keep, more \in SUBSET Hosts : SaveInventory(keep, more)
  PROVE  OpKnows'
<1>1. TypeOK
  BY DEF RegInv
<1>2. CASE op'.at = "idle"
  BY <1>2, IdleKnows
<1>3. ASSUME NEW d \in Devices, StartRevoke(d) PROVE OpKnows'
  <2>1. op'.at = "revoke" /\ op'.dev = d /\ op'.host = rec[d].host /\ rec' = rec
    BY <1>3 DEF StartRevoke, Step, registry
  <2>. QED  BY <2>1 DEF OpKnows, Enrolling
<1>4. ASSUME NEW keep \in SUBSET Hosts, NEW more \in SUBSET Hosts, SaveInventory(keep, more)
      PROVE  OpKnows'
  <2>1. /\ op'.at = "drop" /\ op'.names = keep \cup more
        /\ op'.todo = BoundTo(Hosts \ (keep \cup more)) /\ bound' = bound
    BY <1>4 DEF SaveInventory, registry
  <2>2. \A h \in Hosts \ op'.names : bound[h] \in Devices => bound[h] \in op'.todo
    BY <2>1, RegistryAssumption DEF BoundTo
  <2>. QED  BY <2>1, <2>2 DEF OpKnows, Enrolling
<1>5. ASSUME NEW d \in Devices, NEW o \in {"ok", "old", "new"}, Drop(d, o), o = "ok"
      PROVE  OpKnows'
  <2>. DEFINE r == [rec[d] EXCEPT !.revoked = TRUE]
  <2>1. rec[d] \in Record
    BY <1>5 DEF RegInv, Drop, OpFits
  <2>2. r \in Record /\ r.revoked
    BY <2>1 DEF Record
  <2>3. SaveRecord(d, r, o)
    BY <1>5 DEF Drop
  <2>. HIDE DEF r
  <2>4. rec'[d] = r
    BY <1>1, <1>5, <2>2, <2>3, SaveType DEF RegInv
  <2>5. /\ op.at = "drop" /\ op'.at = "drop" /\ op'.names = op.names /\ op'.todo = op.todo \ {d}
        /\ bound' = bound
    BY <1>1, <1>5 DEF Drop, GoOn, TypeOK, Op
  <2>6. ASSUME NEW h \in Hosts \ op.names, bound[h] \in Devices
        PROVE  bound[h] \in op'.todo \/ rec'[bound[h]].revoked
    <3>1. bound[h] \in op.todo \/ rec[bound[h]].revoked
      BY <2>5, <2>6 DEF OpKnows
    <3>2. rec[bound[h]] \in Record
      BY <2>6 DEF RegInv, BoundKnown
    <3>3. rec[bound[h]].revoked => rec'[bound[h]].revoked
      BY <2>6, <3>2 DEF RecordStep, Kept
    <3>. QED  BY <2>2, <2>4, <2>5, <3>1, <3>3
  <2>. QED  BY <2>5, <2>6 DEF OpKnows, Enrolling
<1>6. ASSUME NEW d \in Devices, NEW o \in {"ok", "old", "new"}, Drop(d, o), o # "ok"
      PROVE  OpKnows'
  BY <1>2, <1>6 DEF Drop, GoOn, Idle
<1>. QED  BY <1>3, <1>4, <1>5, <1>6

-------------------------------------------------------------------------------
(* Names *)

(* A name of a device that was removed: its removal may have taken the row or the binding of    *)
(* another device of the name.                                                                  *)
Removed(e) == recDisk[e] \in Record /\ recDisk[e].removed
Spoiled(h) == \E e \in Devices : Removed(e) /\ recDisk[e].host = h

(* A name that is bound to a device that may connect, in memory or on disk, is listed, by a row *)
(* of that device or of nobody, and is bound to it in memory.                                   *)
Held(h) ==
  /\ \A b \in Devices :
       Live(b) /\ (bound[h] = b \/ boundDisk[h] = b) =>
         h \in HostsOf(inv) /\ \A w \in inv : w.host = h => w.agent \in {b, None}
  /\ \A b \in Devices : Live(b) /\ boundDisk[h] = b => bound[h] = b
NamesHeld == \A h \in Hosts : ~Spoiled(h) => Held(h)

LEMMA StepPersists ==
  ASSUME RegInv, RecordStep
  PROVE  /\ \A h : Spoiled(h) => Spoiled(h)'
         /\ \A b \in Devices : rec[b] \in Record /\ Live(b)' => Live(b)
         /\ \A b \in Devices : \A h : Own(b, h) => Own(b, h)'
         /\ \A e \in Devices : Removed(e) => Removed(e)' /\ recDisk'[e].host = recDisk[e].host
<1>1. \A e \in Devices : recDisk[e] \in Record => rec[e] \in Record
  BY NoneAssumption DEF RegInv, Recorded
<1>2. \A e \in Devices : Removed(e) => Removed(e)' /\ recDisk'[e].host = recDisk[e].host
  BY <1>1 DEF RecordStep, Kept, Removed
<1>3. \A h : Spoiled(h) => Spoiled(h)'
  BY <1>2 DEF Spoiled
<1>4. \A b \in Devices : rec[b] \in Record /\ Live(b)' => Live(b)
  BY DEF RecordStep, Kept, Live
<1>5. \A b \in Devices : \A h : Own(b, h) => Own(b, h)'
  BY DEF RecordStep, Kept, Own
<1>. QED  BY <1>2, <1>3, <1>4, <1>5

(* Names and rows that a step leaves alone.                                                     *)
LEMMA SameNames ==
  ASSUME RegInv, RecordStep, OwnNames, NamesHeld, UNCHANGED <<inv, bound, boundDisk>>
  PROVE  OwnNames' /\ NamesHeld'
<1>1. TypeOK /\ BoundKnown
  BY DEF RegInv
<1>2. OwnNames'
  <2>1. ASSUME NEW h \in Hosts, NEW b \in {bound[h], boundDisk[h]}, b # None PROVE Own(b, h)'
    BY <1>1, <2>1, StepPersists DEF OwnNames, TypeOK, Device
  <2>2. ASSUME NEW w \in inv, w.agent # None PROVE Own(w.agent, w.host)'
    BY <1>1, <2>2, StepPersists DEF OwnNames, TypeOK, Row, Device
  <2>. QED  BY <2>1, <2>2 DEF OwnNames
<1>3. NamesHeld'
  <2>. SUFFICES ASSUME NEW h \in Hosts, ~Spoiled(h)' PROVE Held(h)'
    BY DEF NamesHeld
  <2>1. Held(h)
    BY StepPersists DEF NamesHeld
  <2>2. ASSUME NEW b \in Devices, Live(b)', bound[h] = b \/ boundDisk[h] = b PROVE Live(b)
    BY <1>1, <2>2, StepPersists DEF BoundKnown
  <2>. QED  BY <2>1, <2>2 DEF Held, HostsOf
<1>. QED  BY <1>2, <1>3

(* A name is bound only with a row that is the device's.                                        *)
LEMMA BindHolds ==
  ASSUME RegInv, RecordStep, OpKnows, NamesUnique, OwnNames, NamesHeld,
         NEW o \in {"ok", "old", "new"}, Bind(o)
  PROVE  OwnNames' /\ NamesHeld'
<1>1. /\ op.dev \in Devices /\ op.host \in Hosts /\ Live(op.dev) /\ Own(op.dev, op.host)
      /\ TypeOK /\ UNCHANGED <<inv, rec, recDisk>> /\ op.at = "bind"
  BY DEF RegInv, Bind, OpFits, Acting, Places, OpKnows, Enrolling
<1>2. PICK w0 \in inv : w0.host = op.host /\ (w0.agent = op.dev \/ bound[op.host] = op.dev)
  BY <1>1 DEF OpKnows
<1>3. /\ bound'[op.host] = op.dev /\ boundDisk'[op.host] \in {boundDisk[op.host], op.dev}
      /\ \A h \in Hosts \ {op.host} : /\ bound'[h] = bound[h]
                                        /\ boundDisk'[h] \in {boundDisk[h], bound[h]}
  <2>1. bound' = [bound EXCEPT ![op.host] = op.dev] /\ (boundDisk' = boundDisk \/ boundDisk' = bound')
    BY DEF Bind, File
  <2>2. bound'[op.host] = op.dev /\ \A h \in Hosts \ {op.host} : bound'[h] = bound[h]
    BY <1>1, <2>1 DEF TypeOK
  <2>3. CASE boundDisk' = boundDisk
    BY <2>2, <2>3
  <2>4. CASE boundDisk' = bound'
    BY <2>2, <2>4
  <2>. QED  BY <2>1, <2>3, <2>4
<1>4. OwnNames'
  BY <1>1, <1>3 DEF OwnNames, Own
<1>5. ASSUME NEW h \in Hosts, ~Spoiled(h) PROVE Held(h)'
  <2>1. Held(h)
    BY <1>5 DEF NamesHeld
  <2>2. CASE h # op.host
    BY <1>1, <1>3, <2>1, <2>2 DEF Held, HostsOf, Live
  <2>3. CASE h = op.host
    <3>1. h \in HostsOf(inv)
      BY <1>2, <2>3 DEF HostsOf
    <3>2. ASSUME NEW w \in inv, w.host = h PROVE w.agent \in {op.dev, None}
      <4>1. CASE w0.agent = op.dev
        BY <1>2, <2>3, <3>2, <4>1 DEF NamesUnique
      <4>2. CASE bound[op.host] = op.dev
        BY <1>1, <2>1, <2>3, <3>2, <4>2 DEF Held
      <4>. QED  BY <1>2, <4>1, <4>2
    <3>3. ASSUME NEW b \in Devices, Live(b), boundDisk[h] = b PROVE b = op.dev
      <4>1. bound[h] = b /\ \A w \in inv : w.host = h => w.agent \in {b, None}
        BY <2>1, <3>3 DEF Held
      <4>2. op.dev # None
        BY <1>1, RegistryAssumption
      <4>. QED  BY <1>2, <2>3, <4>1, <4>2
    <3>. QED  BY <1>1, <1>3, <2>3, <3>1, <3>2, <3>3 DEF Held, HostsOf, Live
  <2>. QED  BY <2>2, <2>3
<1>6. NamesHeld'
  BY <1>1, <1>5 DEF NamesHeld, Spoiled, Removed
<1>. QED  BY <1>4, <1>6

LEMMA UnbindHolds ==
  ASSUME RegInv, RecordsAgree, OpKnows, OwnNames, NamesHeld,
         NEW o \in {"ok", "old", "new"}, Unbind(o)
  PROVE  OwnNames' /\ NamesHeld'
<1>1. /\ op.dev \in Devices /\ op.host \in Hosts /\ TypeOK /\ UNCHANGED <<inv, rec, recDisk>>
      /\ rec[op.dev] \in Record /\ rec[op.dev].host = op.host /\ recDisk[op.dev].removed
  BY DEF RegInv, Unbind, OpFits, Acting, Places, OpKnows
<1>2. Spoiled(op.host)
  <2>1. recDisk[op.dev] = rec[op.dev]
    BY <1>1 DEF RecordsAgree, Agree
  <2>. QED  BY <1>1, <2>1 DEF Spoiled, Removed
<1>3. /\ bound'[op.host] = None /\ boundDisk'[op.host] \in {boundDisk[op.host], None}
      /\ \A h \in Hosts \ {op.host} : /\ bound'[h] = bound[h]
                                        /\ boundDisk'[h] \in {boundDisk[h], bound[h]}
  <2>1. bound' = [bound EXCEPT ![op.host] = None] /\ (boundDisk' = boundDisk \/ boundDisk' = bound')
    BY DEF Unbind, File
  <2>2. bound'[op.host] = None /\ \A h \in Hosts \ {op.host} : bound'[h] = bound[h]
    BY <1>1, <2>1 DEF TypeOK
  <2>3. CASE boundDisk' = boundDisk
    BY <2>2, <2>3
  <2>4. CASE boundDisk' = bound'
    BY <2>2, <2>4
  <2>. QED  BY <2>1, <2>3, <2>4
<1>4. OwnNames'
  BY <1>1, <1>3 DEF OwnNames, Own
<1>5. ASSUME NEW h \in Hosts, ~Spoiled(h) PROVE Held(h)'
  BY <1>1, <1>2, <1>3, <1>5 DEF NamesHeld, Held, HostsOf, Live
<1>6. NamesHeld'
  BY <1>1, <1>5 DEF NamesHeld, Spoiled, Removed
<1>. QED  BY <1>4, <1>6

LEMMA CrashHolds ==
  ASSUME RegInv, RecordStep, OwnNames, NamesHeld, Crash
  PROVE  OwnNames' /\ NamesHeld'
<1>1. bound' = boundDisk /\ UNCHANGED <<inv, boundDisk>> /\ TypeOK /\ BoundKnown
  BY DEF RegInv, Crash
<1>2. OwnNames'
  <2>1. ASSUME NEW h \in Hosts, boundDisk[h] # None PROVE Own(boundDisk[h], h)'
    BY <1>1, <2>1, StepPersists DEF OwnNames, TypeOK, Device
  <2>2. ASSUME NEW w \in inv, w.agent # None PROVE Own(w.agent, w.host)'
    BY <1>1, <2>2, StepPersists DEF OwnNames, TypeOK, Row, Device
  <2>. QED  BY <1>1, <2>1, <2>2 DEF OwnNames
<1>3. ASSUME NEW h \in Hosts, ~Spoiled(h)' PROVE Held(h)'
  <2>1. Held(h)
    BY <1>3, StepPersists DEF NamesHeld
  <2>2. ASSUME NEW b \in Devices, Live(b)', boundDisk[h] = b PROVE Live(b)
    BY <1>1, <2>2, StepPersists DEF BoundKnown
  <2>. QED  BY <1>1, <2>1, <2>2 DEF Held, HostsOf
<1>. QED  BY <1>2, <1>3 DEF NamesHeld

(* A row is added under a name that is not listed, and so is not held by another device.        *)
LEMMA EnlistHolds ==
  ASSUME RegInv, OpKnows, OwnNames, NamesHeld, NEW o \in {"ok", "old", "new"}, Enlist(o)
  PROVE  OwnNames' /\ NamesHeld'
<1>. DEFINE h0 == Unused(op.host, op.dev)
            w0 == [host |-> h0, agent |-> op.dev]
<1>1. /\ op.dev \in Devices /\ op.host \in FreshHosts /\ op.host \in Hosts /\ TypeOK
      /\ UNCHANGED <<bound, boundDisk, rec, recDisk>> /\ op.at = "enlist"
      /\ Own(op.dev, op.host)
  BY DEF RegInv, Enlist, OpFits, Acting, Places, OpKnows, Enrolling
<1>2. h0 \notin HostsOf(inv) /\ inv' \in {inv, inv \cup {w0}}
  BY DEF Enlist, File
<1>3. Own(op.dev, h0)
  BY <1>1, NextNameOwn DEF Own
<1>4. w0.host = h0 /\ w0.agent = op.dev
  OBVIOUS
<1>. HIDE DEF h0, w0
<1>5. OwnNames'
  BY <1>1, <1>2, <1>3, <1>4 DEF OwnNames, Own
<1>6. ASSUME NEW h \in Hosts, ~Spoiled(h) PROVE Held(h)'
  <2>1. Held(h)
    BY <1>6 DEF NamesHeld
  <2>2. CASE h = h0
    BY <1>1, <1>2, <2>1, <2>2 DEF Held, Live
  <2>3. CASE h # h0
    <3>1. h \in HostsOf(inv) => h \in HostsOf(inv')
      BY <1>2 DEF HostsOf
    <3>2. \A w \in inv' : w.host = h => w \in inv
      BY <1>2, <1>4, <2>3
    <3>. QED  BY <1>1, <2>1, <3>1, <3>2 DEF Held, Live
  <2>. QED  BY <2>2, <2>3
<1>. QED  BY <1>1, <1>5, <1>6 DEF NamesHeld, Spoiled, Removed

(* Rows go: that of a removed device, or those that are not in the operator's list, whose       *)
(* devices were revoked.                                                                        *)
LEMMA RowsGoHolds ==
  ASSUME RegInv, OpKnows, OwnNames, NamesHeld, NEW o \in {"ok", "old", "new"},
         Unlist(o) \/ WriteRows(o)
  PROVE  OwnNames' /\ NamesHeld'
<1>1. UNCHANGED <<bound, boundDisk, rec, recDisk>> /\ TypeOK
  BY DEF RegInv, Unlist, WriteRows
<1>2. CASE Unlist(o)
  <2>1. /\ op.host \in Hosts /\ bound[op.host] = None /\ boundDisk[op.host] = None
        /\ inv' \in {inv, {w \in inv : w.host # op.host}}
    BY <1>2 DEF RegInv, Unlist, File, OpFits, Acting, Places, OpKnows
  <2>2. OwnNames'
    BY <1>1, <2>1 DEF OwnNames, Own
  <2>3. ASSUME NEW h \in Hosts, ~Spoiled(h) PROVE Held(h)'
    <3>1. Held(h)
      BY <2>3 DEF NamesHeld
    <3>2. h # op.host /\ h \in HostsOf(inv) => h \in HostsOf(inv')
      BY <2>1 DEF HostsOf
    <3>3. h = op.host => \A b \in Devices : bound[h] # b /\ boundDisk[h] # b
      BY <2>1, RegistryAssumption
    <3>. QED  BY <1>1, <2>1, <3>1, <3>2, <3>3 DEF Held, Live
  <2>. QED  BY <1>1, <2>2, <2>3 DEF NamesHeld, Spoiled, Removed
<1>3. CASE WriteRows(o)
  <2>. DEFINE rows == {[host |-> h, agent |-> None] : h \in op.names}
  <2>1. /\ op.at = "drop" /\ op.todo = {} /\ op.names \subseteq Hosts
        /\ inv' \in {inv, rows}
    BY <1>1, <1>3 DEF WriteRows, File, TypeOK, Op
  <2>2. \A w \in rows : w.agent = None /\ w.host \in op.names
    OBVIOUS
  <2>3. ASSUME NEW h \in op.names PROVE h \in HostsOf(rows)
    <3>1. [host |-> h, agent |-> None] \in rows /\ [host |-> h, agent |-> None].host = h
      OBVIOUS
    <3>. QED  BY <3>1 DEF HostsOf
  <2>. HIDE DEF rows
  <2>4. OwnNames'
    BY <1>1, <2>1, <2>2 DEF OwnNames, Own
  <2>5. ASSUME NEW h \in Hosts, ~Spoiled(h) PROVE Held(h)'
    <3>1. Held(h)
      BY <2>5 DEF NamesHeld
    <3>2. h \notin op.names => \A b \in Devices : bound[h] = b => ~Live(b)
      BY <2>1 DEF OpKnows, Live
    <3>. QED  BY <1>1, <2>1, <2>2, <2>3, <3>1, <3>2 DEF Held, Live
  <2>. QED  BY <1>1, <2>4, <2>5 DEF NamesHeld, Spoiled, Removed
<1>. QED  BY <1>2, <1>3

-------------------------------------------------------------------------------
(* Completed registrations *)

(* A device that completed its registration is bound to the name in its record.                 *)
Registered(d) ==
  \A r \in {rec[d], recDisk[d]} :
    ~r.pending /\ ~Spoiled(r.host) => bound[r.host] = d /\ boundDisk[r.host] = d
RegisteredHold == \A d \in Devices : Live(d) => Registered(d)

(* No device that calls itself the same was removed.                                            *)
Clean(d) ==
  \A e \in Devices \ {d} : Removed(e) => recDisk[e].host # Plain(Called(rec[d].host))

(* The names that a device has: bound to it, in memory or on disk, or with a row of its own.    *)
Has(d, h) == bound[h] = d \/ boundDisk[h] = d \/ \E w \in inv : w.host = h /\ w.agent = d

(* A device has one name, the one of its record when its registration is complete, and none     *)
(* after its removal.                                                                           *)
One(d) ==
  /\ \A h, k \in Hosts : Has(d, h) /\ Has(d, k) => h = k
  /\ \A r \in {rec[d], recDisk[d]} : \A h \in Hosts : ~r.pending /\ Has(d, h) => h = r.host
  /\ d \in gone /\ ~rec[d].pending => \A h \in Hosts : ~Has(d, h)
NamesAreOne == \A d \in Devices : rec[d] \in Record /\ Clean(d) => One(d)

GoneRemoved == \A d \in gone : Removed(d)

RegSafe ==
  /\ RegInv /\ NamesUnique /\ RecordsAgree /\ OpKnows /\ OwnNames /\ NamesHeld
  /\ RegisteredHold /\ NamesAreOne /\ GoneRemoved

(* The names of different devices differ, but for what their machines call themselves.          *)
LEMMA CleanUnspoiled ==
  ASSUME RegInv, RecordsAgree, NEW d \in Devices, Live(d), Clean(d), NEW h, Own(d, h)
  PROVE  ~Spoiled(h)
<1>. SUFFICES ASSUME NEW e \in Devices, Removed(e), recDisk[e].host = h PROVE FALSE
  BY DEF Spoiled
<1>1. rec[e] \in Record /\ Agree(e, rec[e], recDisk[e])
  BY NoneAssumption DEF RegInv, Recorded, Removed, RecordsAgree
<1>2. e # d
  BY <1>1 DEF Agree, Removed, Live
<1>3. OwnName(e, h) /\ OwnName(d, h)
  BY <1>1 DEF Agree, Own
<1>4. h = Plain(Called(h))
  <2>1. CASE h = Plain(h[1])
    BY <2>1 DEF Called
  <2>2. CASE h[2] = d /\ h[2] = e
    BY <1>2, <2>2
  <2>. QED  BY <1>3, <2>1, <2>2 DEF OwnName
<1>. QED  BY <1>2, <1>4 DEF Clean, Own

(* A name stays bound to the device that holds it.                                              *)
LEMMA BoundStays ==
  ASSUME RegSafe, [Next]_vars, NEW d \in Devices, Live(d), NEW h \in Hosts, ~Spoiled(h),
         bound[h] = d, boundDisk[h] = d
  PROVE  bound'[h] = d /\ boundDisk'[h] = d
<1>1. Held(h) /\ TypeOK /\ d # None
  BY RegistryAssumption DEF RegSafe, RegInv, NamesHeld
<1>2. ASSUME NEW o, Bind(o) PROVE bound'[h] = d /\ boundDisk'[h] = d
  <2>1. op.at = "bind" /\ op.host \in Hosts /\ op.dev \in Devices
    BY <1>2 DEF RegSafe, RegInv, Bind, OpFits, Acting, Places
  <2>2. PICK w \in inv : w.host = op.host /\ (w.agent = op.dev \/ bound[op.host] = op.dev)
    BY <2>1 DEF RegSafe, OpKnows
  <2>3. op.host = h => op.dev = d
    BY <1>1, <2>1, <2>2, RegistryAssumption DEF Held
  <2>4. bound' = [bound EXCEPT ![op.host] = op.dev] /\ (boundDisk' = boundDisk \/ boundDisk' = bound')
    BY <1>2 DEF Bind, File
  <2>5. bound'[h] = d
    BY <1>1, <2>1, <2>3, <2>4 DEF TypeOK
  <2>. QED  BY <2>4, <2>5
<1>3. ASSUME NEW o, Unbind(o) PROVE bound'[h] = d /\ boundDisk'[h] = d
  <2>1. op.at = "unbind" /\ op.host \in Hosts /\ op.dev \in Devices /\ rec[op.dev] \in Record
    BY <1>3 DEF RegSafe, RegInv, Unbind, OpFits, Acting, Places
  <2>2. recDisk[op.dev].removed /\ rec[op.dev].host = op.host /\ recDisk[op.dev] = rec[op.dev]
    BY <2>1 DEF RegSafe, OpKnows, RecordsAgree, Agree
  <2>3. op.host # h
    BY <2>1, <2>2 DEF Spoiled, Removed
  <2>4. bound' = [bound EXCEPT ![op.host] = None] /\ (boundDisk' = boundDisk \/ boundDisk' = bound')
    BY <1>3 DEF Unbind, File
  <2>5. bound'[h] = d
    BY <1>1, <2>1, <2>3, <2>4 DEF TypeOK
  <2>. QED  BY <2>4, <2>5
<1>4. CASE Crash
  BY <1>4 DEF Crash
<1>5. CASE UNCHANGED <<bound, boundDisk>>
  BY <1>5
<1>6. \/ UNCHANGED <<bound, boundDisk>> \/ Crash
      \/ \E o \in Outcomes : Bind(o) \/ Unbind(o)
  BY DEF Next, vars, registry, Hello, Exchange, Deny, TakeUp, Duplicate, Refuse, Wait, Enrol,
         Withdraw, Register, Enlist, Count, Settle, Answer, Revoke, Remove, Unlist, WriteRows,
         Wake, Drop, Configure, StartRevoke, GuiRead, SaveInventory
<1>. QED  BY <1>2, <1>3, <1>4, <1>5, <1>6

LEMMA RegisteredNext ==
  ASSUME RegSafe, RecordStep, [Next]_vars, RegInv'
  PROVE  RegisteredHold'
<1>. SUFFICES ASSUME NEW d \in Devices, Live(d)', NEW x \in {rec'[d], recDisk'[d]},
                     ~x.pending, ~Spoiled(x.host)'
              PROVE  bound'[x.host] = d /\ boundDisk'[x.host] = d
  BY DEF RegisteredHold, Registered
<1>1. RegInv /\ rec'[d] \in Record
  BY DEF RegSafe, Live
<1>2. ~Spoiled(x.host)
  BY <1>1, StepPersists
<1>3. x.host \in Hosts
  <2>1. x \in Record
    BY <1>1, NoneAssumption DEF RegInv, Recorded
  <2>. QED  BY <2>1 DEF Record
<1>4. CASE rec[d] \in Record /\ \E y \in {rec[d], recDisk[d]} : ~y.pending /\ y.host = x.host
  <2>1. Live(d)
    BY <1>1, <1>4, StepPersists
  <2>2. bound[x.host] = d /\ boundDisk[x.host] = d
    BY <1>2, <1>4, <2>1 DEF RegSafe, RegisteredHold, Registered
  <2>. QED  BY <1>2, <1>3, <2>1, <2>2, BoundStays
<1>5. CASE op.at = "settle" /\ op.dev = d /\ x.host = op.host
  <2>1. Live(d) /\ bound[x.host] = d /\ boundDisk[x.host] = d
    BY <1>5 DEF RegSafe, OpKnows, Enrolling
  <2>. QED  BY <1>2, <1>3, <2>1, BoundStays
<1>. QED  BY <1>1, <1>4, <1>5 DEF RecordStep, Complete

(* A device gets no name by any step but the addition of its row, or the binding of a name that *)
(* has a row of its own.                                                                        *)
LEMMA NamesGrow ==
  ASSUME RegSafe, [Next]_vars, NEW d \in Devices, NEW h \in Hosts, Has(d, h)'
  PROVE  \/ Has(d, h)
         \/ \E o \in Outcomes : Enlist(o) /\ d = op.dev /\ h = Unused(op.host, op.dev)
<1>1. TypeOK /\ d # None
  BY RegistryAssumption DEF RegSafe, RegInv
<1>2. ASSUME NEW o, Bind(o) PROVE Has(d, h)
  <2>1. op.at = "bind" /\ op.host \in Hosts
    BY <1>2 DEF RegSafe, RegInv, Bind, OpFits, Acting, Places
  <2>2. PICK w \in inv : w.host = op.host /\ (w.agent = op.dev \/ bound[op.host] = op.dev)
    BY <2>1 DEF RegSafe, OpKnows
  <2>3. /\ bound' = [bound EXCEPT ![op.host] = op.dev]
        /\ boundDisk' = boundDisk \/ boundDisk' = bound'
        /\ inv' = inv
    BY <1>2 DEF Bind, File
  <2>4. bound'[h] = IF h = op.host THEN op.dev ELSE bound[h]
    BY <1>1, <2>1, <2>3 DEF TypeOK
  <2>5. bound'[h] = d => Has(d, h)
    BY <2>2, <2>4 DEF Has
  <2>6. boundDisk'[h] = d => Has(d, h)
    BY <2>3, <2>5 DEF Has
  <2>. QED  BY <2>3, <2>5, <2>6 DEF Has
<1>3. ASSUME NEW o, Unbind(o) PROVE Has(d, h)
  <2>1. op.host \in Hosts
    BY <1>3 DEF RegSafe, RegInv, Unbind, OpFits, Acting, Places
  <2>2. /\ bound' = [bound EXCEPT ![op.host] = None]
        /\ boundDisk' = boundDisk \/ boundDisk' = bound'
        /\ inv' = inv
    BY <1>3 DEF Unbind, File
  <2>3. bound'[h] \in {bound[h], None}
    BY <1>1, <2>1, <2>2 DEF TypeOK
  <2>4. bound'[h] = d => bound[h] = d
    BY <1>1, <2>3
  <2>5. boundDisk'[h] = d => bound[h] = d \/ boundDisk[h] = d
    BY <2>2, <2>4
  <2>. QED  BY <2>2, <2>4, <2>5 DEF Has
<1>4. ASSUME NEW o \in Outcomes, Enlist(o), ~Has(d, h)
      PROVE  d = op.dev /\ h = Unused(op.host, op.dev)
  <2>. DEFINE w0 == [host |-> Unused(op.host, op.dev), agent |-> op.dev]
  <2>1. inv' \subseteq inv \cup {w0} /\ UNCHANGED <<bound, boundDisk>>
    BY <1>4 DEF Enlist, File
  <2>2. w0.host = Unused(op.host, op.dev) /\ w0.agent = op.dev
    OBVIOUS
  <2>. HIDE DEF w0
  <2>. QED  BY <1>4, <2>1, <2>2 DEF Has
<1>5. ASSUME NEW o, Unlist(o) PROVE Has(d, h)
  <2>1. inv' \subseteq inv /\ UNCHANGED <<bound, boundDisk>>
    BY <1>5 DEF Unlist, File
  <2>. QED  BY <2>1 DEF Has
<1>6. ASSUME NEW o, WriteRows(o) PROVE Has(d, h)
  <2>1. /\ \A w \in inv' : w \in inv \/ w.agent = None
        /\ UNCHANGED <<bound, boundDisk>>
    BY <1>6 DEF WriteRows, File
  <2>. QED  BY <1>1, <2>1 DEF Has
<1>7. CASE Crash
  BY <1>7 DEF Crash, Has
<1>8. CASE UNCHANGED <<inv, bound, boundDisk>>
  BY <1>8 DEF Has
<1>9. \/ UNCHANGED <<inv, bound, boundDisk>> \/ Crash
      \/ \E o \in Outcomes : Bind(o) \/ Unbind(o) \/ Enlist(o) \/ Unlist(o) \/ WriteRows(o)
  BY DEF Next, vars, registry, Hello, Exchange, Deny, TakeUp, Duplicate, Refuse, Wait, Enrol,
         Withdraw, Register, Count, Settle, Answer, Revoke, Remove,
         Wake, Drop, Configure, StartRevoke, GuiRead, SaveInventory
<1>. QED  BY <1>2, <1>3, <1>4, <1>5, <1>6, <1>7, <1>8, <1>9

(* A row is added for a device that has no name yet.                                            *)
LEMMA EnlistFirst ==
  ASSUME RegSafe, NEW o, Enlist(o), Clean(op.dev)
  PROVE  \A h \in Hosts : ~Has(op.dev, h)
<1>. SUFFICES ASSUME NEW h \in Hosts, Has(op.dev, h) PROVE FALSE
  OBVIOUS
<1>1. /\ RegInv /\ RecordsAgree /\ TypeOK /\ op.at = "enlist" /\ op.dev \in Devices
      /\ Live(op.dev) /\ op.dev # None
      /\ \A w \in inv : ~Mine(w)
  BY RegistryAssumption
     DEF RegSafe, RegInv, Enlist, OpFits, Acting, Places, OpKnows, Enrolling
<1>2. Own(op.dev, h)
  BY <1>1 DEF RegSafe, OwnNames, Has
<1>3. Held(h)
  BY <1>1, <1>2, CleanUnspoiled DEF RegSafe, NamesHeld
<1>4. CASE \E w \in inv : w.host = h /\ w.agent = op.dev
  BY <1>1, <1>4 DEF Mine
<1>5. CASE bound[h] = op.dev \/ boundDisk[h] = op.dev
  <2>1. bound[h] = op.dev /\ h \in HostsOf(inv)
    BY <1>1, <1>3, <1>5 DEF Held
  <2>2. PICK w \in inv : w.host = h
    BY <2>1 DEF HostsOf
  <2>. QED  BY <1>1, <2>1, <2>2 DEF Mine
<1>. QED  BY <1>4, <1>5 DEF Has

LEMMA GoneNext ==
  ASSUME RegSafe, RecordStep, [Next]_vars
  PROVE  GoneRemoved'
<1>1. ASSUME NEW o, Unlist(o) PROVE gone' \subseteq gone \cup {op.dev} /\ Removed(op.dev)
  <2>1. op.dev \in Devices /\ op.at = "unlist" /\ rec[op.dev] \in Record
    BY <1>1 DEF RegSafe, RegInv, Unlist, OpFits, Acting, Places
  <2>2. recDisk[op.dev].removed /\ recDisk[op.dev] = rec[op.dev]
    BY <2>1 DEF RegSafe, OpKnows, RecordsAgree, Agree
  <2>. QED  BY <1>1, <2>1, <2>2 DEF Unlist, Removed
<1>2. gone' = gone \/ \E o \in Outcomes : Unlist(o)
  BY DEF Next, vars, ghosts, Hello, Exchange, Deny, TakeUp, Duplicate, Refuse, Wait, Enrol,
         Withdraw, Register, Enlist, Bind, Count, Settle, Answer, Revoke, Remove, Unbind,
         WriteRows, Wake, Drop, Configure, StartRevoke, GuiRead, SaveInventory, Crash
<1>3. \A e \in gone' : Removed(e) /\ e \in Devices
  <2>1. \A e \in gone : Removed(e) /\ e \in Devices
    BY DEF RegSafe, RegInv, TypeOK, GoneRemoved
  <2>2. ASSUME NEW o, Unlist(o) PROVE op.dev \in Devices
    BY <2>2 DEF RegSafe, RegInv, Unlist, OpFits, Acting, Places
  <2>. QED  BY <1>1, <1>2, <2>1, <2>2
<1>. QED  BY <1>3, StepPersists DEF RegSafe, GoneRemoved

LEMMA NamesAreOneNext ==
  ASSUME RegSafe, RecordStep, [Next]_vars, RegInv'
  PROVE  NamesAreOne'
<1>. SUFFICES ASSUME NEW d \in Devices, rec'[d] \in Record, Clean(d)' PROVE One(d)'
  BY DEF NamesAreOne
<1>1. RegInv /\ RecordsAgree /\ Complete(d)
  BY DEF RegSafe, RecordStep
<1>2. CASE rec[d] \notin Record
  <2>1. \A h \in Hosts : ~Has(d, h)
    BY <1>2, RegistryAssumption DEF RegSafe, OwnNames, Own, Has
  <2>2. ASSUME NEW o, Enlist(o) PROVE d # op.dev
    BY <1>2, <2>2 DEF RegSafe, Enlist, OpKnows, Enrolling, Live
  <2>3. \A h \in Hosts : ~Has(d, h)'
    BY <2>1, <2>2, NamesGrow
  <2>. QED  BY <2>3 DEF One
<1>3. CASE rec[d] \in Record
  <2>1. Kept(d)
    BY <1>3 DEF RecordStep
  <2>2. Clean(d)
    BY <1>1, <2>1, StepPersists DEF Clean, Kept
  <2>3. One(d)
    BY <1>3, <2>2 DEF RegSafe, NamesAreOne
  <2>4. CASE \E o \in Outcomes : Enlist(o) /\ op.dev = d
    <3>1. PICK o \in Outcomes : Enlist(o)
      BY <2>4
    <3>2. /\ op.at = "enlist" /\ Live(d) /\ rec[d].pending
          /\ UNCHANGED <<rec, recDisk, gone>>
      BY <2>4, <3>1 DEF RegSafe, Enlist, OpKnows, Enrolling, ghosts
    <3>3. \A h \in Hosts : ~Has(d, h)
      BY <2>2, <2>4, <3>1, EnlistFirst
    <3>4. \A h \in Hosts : Has(d, h)' => h = Unused(op.host, op.dev)
      BY <3>3, NamesGrow
    <3>5. recDisk[d].pending
      <4>. SUFFICES ASSUME ~recDisk[d].pending PROVE FALSE
        BY DEF RegSafe
      <4>1. recDisk[d] \in Record /\ Own(d, recDisk[d].host) /\ recDisk[d].host \in Hosts
        <5>1. recDisk[d] \in Record /\ Agree(d, rec[d], recDisk[d])
          BY <1>1, <1>3, NoneAssumption DEF RegInv, Recorded, RecordsAgree
        <5>. QED  BY <1>3, <5>1 DEF Agree, Own, Record
      <4>2. ~Spoiled(recDisk[d].host)
        BY <1>1, <2>2, <3>2, <4>1, CleanUnspoiled
      <4>3. bound[recDisk[d].host] = d
        BY <3>2, <4>2 DEF RegSafe, RegisteredHold, Registered
      <4>. QED  BY <3>3, <4>1, <4>3 DEF Has
    <3>6. d \notin gone
      <4>1. Removed(d) => rec[d].revoked
        BY <1>1, <1>3 DEF RecordsAgree, Agree, Removed
      <4>. QED  BY <3>2, <4>1 DEF RegSafe, GoneRemoved, Live
    <3>. QED  BY <3>2, <3>4, <3>5, <3>6 DEF One
  <2>5. CASE ~\E o \in Outcomes : Enlist(o) /\ op.dev = d
    <3>1. \A h \in Hosts : Has(d, h)' => Has(d, h)
      BY <2>5, NamesGrow
    <3>2. ASSUME NEW x \in {rec'[d], recDisk'[d]}, NEW h \in Hosts, ~x.pending, Has(d, h)'
          PROVE  h = x.host
      <4>1. CASE \E y \in {rec[d], recDisk[d]} : ~y.pending /\ y.host = x.host
        BY <2>3, <3>1, <3>2, <4>1 DEF One
      <4>2. CASE op.at = "settle" /\ op.dev = d /\ x.host = op.host
        <5>1. op.host \in Hosts /\ Has(d, op.host)
          BY <1>1, <4>2 DEF RegSafe, RegInv, OpKnows, OpFits, Acting, Places, Has
        <5>. QED  BY <2>3, <3>1, <3>2, <4>2, <5>1 DEF One
      <4>. QED  BY <1>1, <3>2, <4>1, <4>2 DEF Complete
    <3>3. ASSUME d \in gone', ~rec'[d].pending, NEW h \in Hosts, Has(d, h)'
          PROVE  FALSE
      <4>1. CASE d \in gone
        <5>1. Removed(d) /\ Agree(d, rec[d], recDisk[d])
          BY <1>1, <1>3, <4>1 DEF RegSafe, GoneRemoved, RecordsAgree
        <5>2. recDisk[d] = rec[d] /\ rec[d].revoked
          BY <5>1 DEF Agree, Removed
        <5>3. ~(op.at = "settle" /\ op.dev = d)
          BY <5>2 DEF RegSafe, OpKnows, Enrolling, Live
        <5>4. ~rec[d].pending
          BY <1>1, <3>3, <5>2, <5>3 DEF Complete
        <5>. QED  BY <2>3, <3>1, <3>3, <4>1, <5>4 DEF One
      <4>2. CASE d \notin gone
        <5>1. PICK o \in Outcomes : Unlist(o) /\ o = "ok" /\ op.dev = d
          BY <3>3, <4>2
             DEF Next, vars, ghosts, Hello, Exchange, Deny, TakeUp, Duplicate, Refuse, Wait,
                 Enrol, Withdraw, Register, Enlist, Bind, Count, Settle, Answer, Revoke, Remove,
                 Unbind, Unlist, WriteRows, Wake, Drop, Configure, StartRevoke, GuiRead,
                 SaveInventory, Crash
        <5>2. /\ op.at = "unlist" /\ rec[d].host = op.host
              /\ bound[op.host] = None /\ boundDisk[op.host] = None
              /\ inv' = {w \in inv : w.host # op.host}
              /\ UNCHANGED <<rec, bound, boundDisk>>
          BY <5>1 DEF RegSafe, Unlist, OpKnows, File
        <5>3. h = op.host
          BY <2>3, <3>1, <3>3, <5>2 DEF One
        <5>. QED  BY <3>3, <5>2, <5>3, RegistryAssumption DEF Has
      <4>. QED  BY <4>1, <4>2
    <3>4. \A h, k \in Hosts : Has(d, h)' /\ Has(d, k)' => h = k
      BY <2>3, <3>1 DEF One
    <3>. QED  BY <3>2, <3>3, <3>4 DEF One
  <2>. QED  BY <2>4, <2>5
<1>. QED  BY <1>2, <1>3
-------------------------------------------------------------------------------
(* Every step *)

LEMMA RecordsNext ==
  ASSUME RegSafe, [Next]_vars
  PROVE  RecordStep
<1>1. RegInv /\ RecordsAgree /\ OpKnows
  BY DEF RegSafe
<1>2. ASSUME NEW o \in Outcomes, Register(o) PROVE RecordStep
  BY <1>1, <1>2, OutcomeType, RegisterAgrees DEF Register, OpKnows
<1>3. ASSUME NEW o \in Outcomes, NEW u \in BOOLEAN, Settle(o) \/ Answer(u, o) \/ Revoke(o)
      PROVE  RecordStep
  <2>1. op.at = "settle" => OwnName(op.dev, op.host) /\ Called(op.host) = Called(rec[op.dev].host)
    BY <1>1 DEF OpKnows, Enrolling, Own
  <2>2. op.at \in {"settle", "answer"} => ~rec[op.dev].revoked
    BY <1>1 DEF OpKnows, Enrolling, Live
  <2>. QED  BY <1>1, <1>3, <2>1, <2>2, OutcomeType, HandlerAgrees
<1>4. ASSUME NEW o \in Outcomes, Remove(o) PROVE RecordStep
  BY <1>1, <1>4, OutcomeType, RemoveAgrees DEF Remove, OpKnows
<1>5. \/ UNCHANGED <<rec, recDisk>>
      \/ \E d \in Devices, n \in Names : Exchange(d, n)
      \/ \E o \in Outcomes : \/ Register(o) \/ Settle(o) \/ Revoke(o) \/ Remove(o)
                             \/ \E u \in BOOLEAN : Answer(u, o)
                             \/ \E d \in Devices : Wake(d, o) \/ Drop(d, o)
      \/ Crash
  BY DEF Next, vars, registry, Hello, Deny, TakeUp, Duplicate, Refuse, Wait, Enrol, Withdraw,
         Enlist, Bind, Count, Unbind, Unlist, WriteRows, Configure, StartRevoke, GuiRead,
         SaveInventory
<1>. QED
  BY <1>1, <1>2, <1>3, <1>4, <1>5, OutcomeType, SameRecords, AgesAgree, OthersAgree, CrashAgrees

LEMMA OpKnowsNext ==
  ASSUME RegSafe, RecordStep, [Next]_vars
  PROVE  OpKnows'
<1>1. RegInv /\ RecordsAgree /\ OpKnows /\ OwnNames
  BY DEF RegSafe
<1>2. CASE UNCHANGED vars
  BY <1>1, <1>2 DEF vars, registry, policy, ghosts, OpKnows, Enrolling, Live, Own
<1>3. CASE op'.at = "idle"
  BY <1>3, IdleKnows
<1>4. ASSUME NEW d \in Devices, NEW n \in Names, Exchange(d, n) PROVE OpKnows'
  BY <1>1, <1>4, ComeKnows
<1>5. ASSUME NEW o \in Outcomes, Enrol(o) PROVE OpKnows'
  BY <1>1, <1>5, OutcomeType, RegisterKnows, EnlistKnows, FinishKnows DEF Enrol
<1>6. ASSUME NEW w \in inv, TakeUp(w) PROVE OpKnows'
  BY <1>1, <1>6, EnlistKnows
<1>7. ASSUME NEW o \in Outcomes, Withdraw(o) PROVE OpKnows'
  BY <1>1, <1>3, <1>7, OutcomeType, WithdrawKnows DEF Withdraw, WriteRows, GoOn, Idle
<1>8. ASSUME \/ \E d \in Devices : StartRevoke(d) \/ \E o \in Outcomes : Drop(d, o)
             \/ \E keep, more \in SUBSET Hosts : SaveInventory(keep, more)
      PROVE  OpKnows'
  BY <1>1, <1>8, OutcomeType, OperatorKnows
<1>9. {Plain(n) : n \in Names} \subseteq Hosts
  BY DEF Hosts
<1>10. \/ op'.at = "idle" \/ UNCHANGED vars
       \/ \E d \in Devices, n \in Names : Exchange(d, n)
       \/ \E o \in Outcomes : Enrol(o) \/ Withdraw(o) \/ \E d \in Devices : Drop(d, o)
       \/ \E w \in inv : TakeUp(w)
       \/ \E d \in Devices : StartRevoke(d)
       \/ \E keep \in SUBSET Hosts, more \in SUBSET {Plain(n) : n \in Names} :
            SaveInventory(keep, more)
  <2>1. \A d, n, o, m, open : \/ Hello(d) \/ Deny(d, n) \/ Duplicate \/ Refuse \/ Wait
                             \/ Wake(d, o) \/ Configure(m, open, o) \/ GuiRead \/ Crash
                          => op'.at = "idle"
    BY DEF Hello, Deny, Duplicate, Refuse, Wait, Wake, Configure, GuiRead, Crash, Free, Idle
  <2>. QED  BY <2>1, Zenon DEF Next
<1>11. ASSUME NEW keep \in SUBSET Hosts, NEW more \in SUBSET {Plain(n) : n \in Names},
              SaveInventory(keep, more)
       PROVE  OpKnows'
  <2>1. more \in SUBSET Hosts
    BY <1>9
  <2>. QED  BY <1>8, <1>11, <2>1
<1>. QED  BY <1>2, <1>3, <1>4, <1>5, <1>6, <1>7, <1>8, <1>10, <1>11

LEMMA NamesKeepNext ==
  ASSUME RegSafe, RecordStep, [Next]_vars
  PROVE  OwnNames' /\ NamesHeld'
<1>1. /\ RegInv /\ RecordsAgree /\ OpKnows /\ OwnNames /\ NamesHeld /\ NamesUnique
  BY DEF RegSafe
<1>2. ASSUME NEW o \in Outcomes, Bind(o) \/ Unbind(o) \/ Enlist(o) \/ Unlist(o) \/ WriteRows(o)
      PROVE  OwnNames' /\ NamesHeld'
  BY <1>1, <1>2, OutcomeType, BindHolds, UnbindHolds, EnlistHolds, RowsGoHolds
<1>3. \/ UNCHANGED <<inv, bound, boundDisk>> \/ Crash
      \/ \E o \in Outcomes : Bind(o) \/ Unbind(o) \/ Enlist(o) \/ Unlist(o) \/ WriteRows(o)
  BY DEF Next, vars, registry, Hello, Exchange, Deny, TakeUp, Duplicate, Refuse, Wait, Enrol,
         Withdraw, Register, Count, Settle, Answer, Revoke, Remove,
         Wake, Drop, Configure, StartRevoke, GuiRead, SaveInventory
<1>. QED  BY <1>1, <1>2, <1>3, SameNames, CrashHolds

LEMMA RegSafeInit == Init => RegSafe
<1>. SUFFICES ASSUME Init PROVE RegSafe
  OBVIOUS
<1>1. \A d \in Devices : rec[d] = None /\ recDisk[d] = None
  BY DEF Init
<1>2. \A h \in Hosts : bound[h] = None /\ boundDisk[h] = None
  BY DEF Init
<1>3. RegInv /\ inv = {} /\ op = Idle /\ gone = {}
  BY RegInit DEF Init
<1>4. OpKnows
  BY <1>3 DEF OpKnows, Idle, Enrolling
<1>5. RecordsAgree /\ OwnNames /\ NamesUnique /\ GoneRemoved
  BY <1>1, <1>2, <1>3, NoneAssumption DEF RecordsAgree, OwnNames, NamesUnique, GoneRemoved
<1>6. NamesHeld /\ RegisteredHold /\ NamesAreOne
  BY <1>1, <1>2, NoneAssumption
     DEF NamesHeld, Held, Live, RegisteredHold, NamesAreOne
<1>. QED  BY <1>3, <1>4, <1>5, <1>6 DEF RegSafe

LEMMA RegSafeNext == RegSafe /\ [Next]_vars => RegSafe' /\ RecordStep
<1>. SUFFICES ASSUME RegSafe, [Next]_vars PROVE RegSafe' /\ RecordStep
  OBVIOUS
<1>1. RecordStep /\ RegInv' /\ NamesUnique'
  BY RecordsNext, RegNext, NamesNext DEF RegSafe
<1>2. RecordsAgree'
  BY <1>1 DEF RecordStep
<1>3. OpKnows' /\ OwnNames' /\ NamesHeld'
  BY <1>1, OpKnowsNext, NamesKeepNext
<1>4. RegisteredHold' /\ NamesAreOne' /\ GoneRemoved'
  BY <1>1, RegisteredNext, NamesAreOneNext, GoneNext
<1>. QED  BY <1>1, <1>2, <1>3, <1>4 DEF RegSafe
-------------------------------------------------------------------------------
(* The limit of new devices *)

Unfinished == {d \in Devices : rec[d] \in Record /\ rec[d].pending}
CountedAs(p) == {d \in Devices : Finished(recDisk[d]) /\ stamp[d] = p.epoch}

(* A device is about to be recorded; the registration of the latest one goes on; it is counted  *)
(* and not yet complete.                                                                        *)
Starting == IF op.at = "register" THEN 1 ELSE 0
Fresh == IF \/ op.at = "enlist" /\ op.host \notin HostsOf(inv)
            \/ op.at \in {"bind", "count", "settle"} THEN 1 ELSE 0
Settling == IF op.at = "settle" THEN 1 ELSE 0

(* Each registration that is not complete was interrupted, but for the one at work; and the     *)
(* limit leaves room for the others.                                                            *)
Quota ==
  /\ Cardinality(Unfinished) <= faults + crashes + Fresh
  /\ pol.used + Cardinality(Unfinished) + Starting <= pol.max + faults + crashes + Settling
  /\ polDisk.epoch = pol.epoch => polDisk.max = pol.max /\ polDisk.used <= pol.used
  /\ polDisk.epoch # pol.epoch => polDisk.used = 0
  /\ pol.epoch <= configs /\ polDisk.epoch <= configs

(* Devices that are complete on disk were counted.                                              *)
CountsFit ==
  /\ \A d \in Devices : Finished(recDisk[d]) => stamp[d] \in 0..configs
  /\ Cardinality(CountedAs(pol)) <= pol.used
  /\ Cardinality(CountedAs(polDisk)) <= polDisk.used
  /\ op.at = "settle" => Cardinality(CountedAs(pol) \cup {op.dev}) <= pol.used

LEMMA DeviceSets ==
  /\ \A S \in SUBSET Devices : IsFiniteSet(S) /\ Cardinality(S) \in Nat
  /\ \A S, T \in SUBSET Devices : S \subseteq T => Cardinality(S) <= Cardinality(T)
  /\ \A S \in SUBSET Devices : \A d : Cardinality(S \cup {d}) <= Cardinality(S) + 1
  /\ \A S \in SUBSET Devices : \A d \in S : Cardinality(S \ {d}) = Cardinality(S) - 1
<1>1. \A S \in SUBSET Devices : IsFiniteSet(S) /\ Cardinality(S) \in Nat
  BY RegistryAssumption, FS_Subset, FS_CardinalityType
<1>2. \A S, T \in SUBSET Devices : S \subseteq T => Cardinality(S) <= Cardinality(T)
  <2>. SUFFICES ASSUME NEW S \in SUBSET Devices, NEW T \in SUBSET Devices, S \subseteq T
                PROVE  Cardinality(S) <= Cardinality(T)
    OBVIOUS
  <2>. QED  BY <1>1, FS_Subset
<1>3. ASSUME NEW S \in SUBSET Devices, NEW d PROVE Cardinality(S \cup {d}) <= Cardinality(S) + 1
  <2>1. IsFiniteSet(S) /\ Cardinality(S) \in Nat
    BY <1>1
  <2>2. Cardinality(S \cup {d}) = IF d \in S THEN Cardinality(S) ELSE Cardinality(S) + 1
    BY <2>1, FS_AddElement
  <2>. QED  BY <2>1, <2>2
<1>4. ASSUME NEW S \in SUBSET Devices, NEW d \in S PROVE Cardinality(S \ {d}) = Cardinality(S) - 1
  BY <1>1, FS_RemoveElement
<1>. QED  BY <1>1, <1>2, <1>3, <1>4

Numbers ==
  /\ pol.used \in Nat /\ pol.max \in Nat /\ pol.epoch \in Nat
  /\ polDisk.used \in Nat /\ polDisk.max \in Nat /\ polDisk.epoch \in Nat
  /\ faults \in Nat /\ crashes \in Nat /\ configs \in Nat
  /\ Cardinality(Unfinished) \in Nat
  /\ Fresh \in Nat /\ Starting \in Nat /\ Settling \in Nat
  /\ Fresh <= 1 /\ Starting <= 1 /\ Settling <= 1

LEMMA QuotaTypes == RegInv => Numbers
<1>. SUFFICES ASSUME RegInv PROVE Numbers
  OBVIOUS
<1>1. Cardinality(Unfinished) \in Nat
  BY DeviceSets DEF Unfinished
<1>2. pol \in Policy /\ polDisk \in Policy /\ crashes \in 0..MaxCrashes /\ configs \in 0..MaxConfigs
      /\ faults \in Nat
  BY DEF RegInv, TypeOK
<1>3. Limits \subseteq Nat /\ MaxConfigs \in Nat /\ MaxCrashes \in Nat
  BY RegistryAssumption
<1>4. \A p \in Policy : p.used \in Nat /\ p.max \in Nat /\ p.epoch \in Nat
  <2>. SUFFICES ASSUME NEW p \in Policy PROVE p.used \in Nat /\ p.max \in Nat /\ p.epoch \in Nat
    OBVIOUS
  <2>1. p.used \in Nat /\ p.max \in Limits /\ p.epoch \in 0..MaxConfigs
    BY DEF Policy
  <2>2. p.max \in Nat
    BY <1>3, <2>1
  <2>3. p.epoch \in Nat
    BY <1>3, <2>1
  <2>. QED  BY <2>1, <2>2, <2>3
<1>6. crashes \in Nat /\ configs \in Nat
  BY <1>2, <1>3
<1>5. /\ Fresh \in Nat /\ Starting \in Nat /\ Settling \in Nat
      /\ Fresh <= 1 /\ Starting <= 1 /\ Settling <= 1
  BY DEF Fresh, Starting, Settling
<1>. QED  BY <1>1, <1>2, <1>4, <1>5, <1>6 DEF Numbers

LEMMA QuotaTypesNext == RegInv' => Numbers'
  BY QuotaTypes, PTL

(* Registrations that are not complete: one more when a record is saved, one less at the end.   *)
LEMMA UnfinishedNext ==
  ASSUME RegSafe, RecordStep
  PROVE  /\ op.at # "register" => Cardinality(Unfinished') <= Cardinality(Unfinished)
         /\ Cardinality(Unfinished') <= Cardinality(Unfinished) + 1
<1>1. Unfinished \in SUBSET Devices /\ Unfinished' \in SUBSET Devices
  BY DEF Unfinished
<1>2. \A d \in Unfinished' : d \in Unfinished \/ (op.at = "register" /\ d = op.dev)
  BY DEF Unfinished, RecordStep, Kept, Complete
<1>3. Cardinality(Unfinished \cup {op.dev}) <= Cardinality(Unfinished) + 1
  BY <1>1, DeviceSets
<1>4. CASE op.at # "register"
  <2>1. Unfinished' \subseteq Unfinished
    BY <1>2, <1>4
  <2>. QED  BY <1>1, <1>4, <2>1, DeviceSets
<1>5. CASE op.at = "register"
  <2>1. op.dev \in Devices
    BY <1>5 DEF RegSafe, RegInv, OpFits, Acting, Places
  <2>2. Unfinished' \subseteq Unfinished \cup {op.dev} /\ Unfinished \cup {op.dev} \in SUBSET Devices
    BY <1>1, <1>2, <2>1
  <2>3. Cardinality(Unfinished') <= Cardinality(Unfinished \cup {op.dev})
    BY <1>1, <2>2, DeviceSets
  <2>4. Cardinality(Unfinished') \in Nat /\ Cardinality(Unfinished) \in Nat
        /\ Cardinality(Unfinished \cup {op.dev}) \in Nat
    BY <1>1, <2>2, DeviceSets
  <2>. QED  BY <1>3, <1>5, <2>3, <2>4
<1>6. Cardinality(Unfinished) \in Nat /\ Cardinality(Unfinished') \in Nat
  BY <1>1, DeviceSets
<1>. QED  BY <1>4, <1>5, <1>6

LEMMA SettledNext ==
  ASSUME RegSafe, NEW o, Settle(o), o = "ok"
  PROVE  Cardinality(Unfinished') + 1 <= Cardinality(Unfinished)
<1>1. /\ TypeOK /\ Recorded /\ op.dev \in Devices /\ op.host \in Hosts
      /\ rec[op.dev] \in Record /\ rec[op.dev].pending
  BY DEF RegSafe, RegInv, Settle, OpFits, Acting, Places, OpKnows, Enrolling
<1>. DEFINE r == [rec[op.dev] EXCEPT !.host = op.host, !.pending = FALSE]
<1>2. r \in Record /\ ~r.pending
  BY <1>1 DEF Record
<1>3. SaveRecord(op.dev, r, o)
  BY DEF Settle
<1>. HIDE DEF r
<1>4. rec'[op.dev] = r /\ \A e \in Devices \ {op.dev} : rec'[e] = rec[e]
  BY <1>1, <1>2, <1>3, SaveType
<1>5. Unfinished' \subseteq Unfinished \ {op.dev} /\ op.dev \in Unfinished
  BY <1>1, <1>2, <1>4 DEF Unfinished
<1>6. /\ Unfinished \in SUBSET Devices /\ Unfinished' \in SUBSET Devices
      /\ Unfinished \ {op.dev} \in SUBSET Devices
  BY DEF Unfinished
<1>7. /\ Cardinality(Unfinished') <= Cardinality(Unfinished \ {op.dev})
      /\ Cardinality(Unfinished \ {op.dev}) = Cardinality(Unfinished) - 1
  BY <1>5, <1>6, DeviceSets
<1>8. /\ Cardinality(Unfinished) \in Nat /\ Cardinality(Unfinished') \in Nat
      /\ Cardinality(Unfinished \ {op.dev}) \in Nat
  BY <1>6, DeviceSets
<1>. QED  BY <1>7, <1>8

LEMMA QuotaInit == Init => Quota /\ CountsFit
<1>. SUFFICES ASSUME Init PROVE Quota /\ CountsFit
  OBVIOUS
<1>1. /\ op = Idle /\ polDisk = pol /\ pol.used = 0 /\ pol.epoch = 0
      /\ faults = 0 /\ crashes = 0 /\ configs = 0
      /\ \A d \in Devices : rec[d] = None /\ recDisk[d] = None
  BY DEF Init
<1>2. Unfinished = {} /\ CountedAs(pol) = {} /\ CountedAs(polDisk) = {}
  BY <1>1, NoneAssumption DEF Unfinished, CountedAs, Finished
<1>3. Cardinality({}) = 0
  BY FS_EmptySet
<1>4. Starting = 0 /\ Fresh = 0 /\ Settling = 0 /\ op.at # "settle"
  BY <1>1 DEF Starting, Fresh, Settling, Idle
<1>5. Quota
  BY <1>1, <1>2, <1>3, <1>4, RegInit, QuotaTypes DEF Quota, Numbers
<1>6. CountsFit
  BY <1>1, <1>2, <1>3, <1>4 DEF CountsFit, Finished
<1>. QED  BY <1>5, <1>6

(* What the steps change of what is counted.                                                    *)
LEMMA QuotaNext ==
  ASSUME RegSafe, Quota, RecordStep, RegInv', [Next]_vars
  PROVE  Quota'
<1>. DEFINE U == Cardinality(Unfinished)
            V == Cardinality(Unfinished')
<1>1. Numbers /\ Numbers' /\ OpFits(op, rec) /\ OpKnows
  BY QuotaTypes, QuotaTypesNext DEF RegSafe, RegInv
<1>2. V <= U + Starting /\ V \in Nat /\ U \in Nat
  BY <1>1, UnfinishedNext DEF Numbers, Starting
<1>. HIDE DEF U, V
<1>3. /\ U <= faults + crashes + Fresh
      /\ pol.used + U + Starting <= pol.max + faults + crashes + Settling
      /\ polDisk.epoch = pol.epoch => polDisk.max = pol.max /\ polDisk.used <= pol.used
      /\ polDisk.epoch # pol.epoch => polDisk.used = 0
      /\ pol.epoch <= configs /\ polDisk.epoch <= configs
      /\ Quota' <=>
           /\ V <= faults' + crashes' + Fresh'
           /\ pol'.used + V + Starting' <= pol'.max + faults' + crashes' + Settling'
           /\ polDisk'.epoch = pol'.epoch => polDisk'.max = pol'.max /\ polDisk'.used <= pol'.used
           /\ polDisk'.epoch # pol'.epoch => polDisk'.used = 0
           /\ pol'.epoch <= configs' /\ polDisk'.epoch <= configs'
  BY DEF Quota, U, V
<1>4. ASSUME UNCHANGED <<pol, polDisk, crashes, configs>>,
             faults' = faults + 1, Starting' = 0
      PROVE  Quota'
  BY <1>1, <1>2, <1>3, <1>4 DEF Numbers, Starting, Fresh, Settling
<1>5. ASSUME UNCHANGED <<pol, polDisk, crashes, configs, faults>>,
             Starting = 0, Settling' = 0, Settling = 0, Starting' = 0, Fresh = 0 \/ Fresh' = 1
      PROVE  Quota'
  BY <1>1, <1>2, <1>3, <1>5 DEF Numbers, Fresh
<1>6. CASE UNCHANGED vars
  BY <1>6 DEF vars, registry, policy, bounds, Quota, Unfinished, Starting, Fresh, Settling
<1>7. ASSUME NEW d \in Devices, NEW n \in Names, Exchange(d, n) PROVE Quota'
  <2>1. /\ op.at = "idle" /\ UNCHANGED <<pol, polDisk, crashes, configs, faults>>
        /\ op'.at \in {"enlist", "answer"} \/ (op'.at = "register" /\ MayEnroll)
    BY <1>7 DEF Exchange, Free, Step, policy, bounds
  <2>2. Starting = 0 /\ Fresh = 0 /\ Settling = 0 /\ Settling' = 0
    BY <2>1 DEF Starting, Fresh, Settling
  <2>3. CASE op'.at = "register" /\ MayEnroll
    <3>1. Starting' = 1 /\ Fresh' = 0 /\ pol.used < pol.max
      BY <2>3 DEF Starting, Fresh, MayEnroll
    <3>. QED  BY <1>1, <1>2, <1>3, <2>1, <2>2, <3>1 DEF Numbers
  <2>4. CASE op'.at \in {"enlist", "answer"}
    BY <1>1, <1>5, <2>1, <2>2, <2>4 DEF Starting, Numbers
  <2>. QED  BY <2>1, <2>3, <2>4
<1>8. ASSUME NEW o, o = "ok", Register(o) PROVE Quota'
  <2>1. /\ UNCHANGED <<inv, pol, polDisk, crashes, configs, faults>>
        /\ op.at = "register" /\ op'.at = "enlist" /\ op'.host = op.host
    BY <1>8 DEF Register, GoOn, Step, policy
  <2>2. Fresh' = 1 /\ Fresh = 0 /\ Starting = 1 /\ Starting' = 0 /\ Settling = 0 /\ Settling' = 0
    BY <1>1, <2>1 DEF OpKnows, Fresh, Starting, Settling, HostsOf
  <2>. QED  BY <1>1, <1>2, <1>3, <2>1, <2>2 DEF Numbers
<1>9. ASSUME NEW o, o = "ok", Count(o) PROVE Quota'
  <2>1. /\ pol' = [pol EXCEPT !.used = @ + 1] /\ polDisk' = pol'
        /\ UNCHANGED <<crashes, configs, faults>>
        /\ op.at = "count" /\ op'.at = "settle" /\ pol \in Policy
    BY <1>9 DEF Count, GoOn, Step, File, RegSafe, RegInv, TypeOK
  <2>2. pol'.used = pol.used + 1 /\ pol'.max = pol.max /\ pol'.epoch = pol.epoch
    BY <2>1 DEF Policy
  <2>3. Fresh' = 1 /\ Fresh = 1 /\ Starting = 0 /\ Starting' = 0 /\ Settling = 0 /\ Settling' = 1
    BY <2>1 DEF Fresh, Starting, Settling
  <2>. QED  BY <1>1, <1>2, <1>3, <2>1, <2>2, <2>3 DEF Numbers
<1>10. ASSUME NEW o \in {"old", "new"}, Count(o) PROVE Quota'
  <2>1. /\ pol' = [pol EXCEPT !.used = @ + 1] /\ polDisk' \in {polDisk, pol'}
        /\ UNCHANGED <<crashes, configs>> /\ faults' = faults + 1
        /\ op.at = "count" /\ op'.at = "idle" /\ pol \in Policy
    BY <1>10 DEF Count, GoOn, Idle, File, RegSafe, RegInv, TypeOK
  <2>2. pol'.used = pol.used + 1 /\ pol'.max = pol.max /\ pol'.epoch = pol.epoch
    BY <2>1 DEF Policy
  <2>3. Fresh' = 0 /\ Fresh = 1 /\ Starting = 0 /\ Starting' = 0 /\ Settling = 0 /\ Settling' = 0
    BY <2>1 DEF Fresh, Starting, Settling
  <2>4. CASE polDisk' = pol'
    BY <1>1, <1>2, <1>3, <2>1, <2>2, <2>3, <2>4 DEF Numbers
  <2>5. CASE polDisk' = polDisk
    BY <1>1, <1>2, <1>3, <2>1, <2>2, <2>3, <2>5 DEF Numbers
  <2>. QED  BY <2>1, <2>4, <2>5
<1>11. ASSUME NEW o, o = "ok", Settle(o) PROVE Quota'
  <2>1. /\ UNCHANGED <<pol, polDisk, crashes, configs, faults>>
        /\ op.at = "settle" /\ op'.at = "answer"
    BY <1>11 DEF Settle, GoOn, Step, policy
  <2>2. Fresh' = 0 /\ Fresh = 1 /\ Starting = 0 /\ Starting' = 0 /\ Settling = 1 /\ Settling' = 0
    BY <2>1 DEF Fresh, Starting, Settling
  <2>3. V + 1 <= U
    BY <1>11, SettledNext DEF U, V
  <2>. QED  BY <1>1, <1>2, <1>3, <2>1, <2>2, <2>3 DEF Numbers
<1>12. ASSUME NEW m \in Limits, NEW open \in BOOLEAN, NEW o \in {"ok", "old", "new"},
              Configure(m, open, o)
       PROVE  Quota'
  <2>. DEFINE p == [open |-> open, max |-> m, used |-> 0, epoch |-> configs + 1]
  <2>1. p.max = m /\ p.used = 0 /\ p.epoch = configs + 1
    OBVIOUS
  <2>2. /\ polDisk' = File(o, polDisk, p) /\ pol' = IF o = "ok" THEN p ELSE pol
        /\ configs' = configs + 1 /\ crashes' = crashes
        /\ faults' = IF o = "ok" THEN faults ELSE faults + 1
        /\ op.at = "idle" /\ op' = op
    BY <1>12 DEF Configure, Free
  <2>3. Fresh' = 0 /\ Fresh = 0 /\ Starting = 0 /\ Starting' = 0 /\ Settling = 0 /\ Settling' = 0
    BY <2>2 DEF Fresh, Starting, Settling
  <2>. HIDE DEF p
  <2>4. CASE o = "ok"
    BY <1>1, <1>2, <1>3, <2>1, <2>2, <2>3, <2>4 DEF Numbers, File
  <2>5. CASE o = "old"
    BY <1>1, <1>2, <1>3, <2>1, <2>2, <2>3, <2>5 DEF Numbers, File
  <2>6. CASE o = "new"
    BY <1>1, <1>2, <1>3, <2>1, <2>2, <2>3, <2>6 DEF Numbers, File
  <2>. QED  BY <2>4, <2>5, <2>6
<1>13. CASE Crash
  <2>1. /\ pol' = polDisk /\ polDisk' = polDisk /\ crashes' = crashes + 1 /\ op'.at = "idle"
        /\ UNCHANGED <<faults, configs>>
    BY <1>13 DEF Crash, Idle
  <2>2. Fresh' = 0 /\ Starting' = 0 /\ Settling' = 0
    BY <2>1 DEF Fresh, Starting, Settling
  <2>3. V <= faults' + crashes'
    BY <1>1, <1>2, <1>3, <2>1 DEF Numbers, Fresh, Starting
  <2>4. CASE polDisk.epoch = pol.epoch
    BY <1>1, <1>2, <1>3, <2>1, <2>2, <2>3, <2>4 DEF Numbers
  <2>5. CASE polDisk.epoch # pol.epoch
    BY <1>1, <1>2, <1>3, <2>1, <2>2, <2>3, <2>5 DEF Numbers
  <2>. QED  BY <2>4, <2>5
<1>14. ASSUME NEW o \in {"old", "new"}, NEW d, NEW u,
              \/ Register(o) \/ Enlist(o) \/ Bind(o) \/ Settle(o) \/ Answer(u, o)
              \/ Withdraw(o) \/ Wake(d, o) \/ Drop(d, o)
       PROVE  Quota'
  <2>1. \/ Wake(d, o)
        \/ /\ UNCHANGED <<pol, polDisk>>
           /\ \E next : GoOn(o, next)
    BY <1>14 DEF Register, Enlist, Bind, Settle, Answer, Withdraw, Revoke, Remove, Unbind, Unlist,
                 WriteRows, Drop, policy
  <2>2. /\ UNCHANGED <<pol, polDisk, crashes, configs>>
        /\ faults' = faults + 1 /\ op'.at = "idle"
    BY <2>1 DEF GoOn, Idle, Wake, policy, Free
  <2>. QED  BY <1>4, <2>2 DEF Starting
<1>15. ASSUME NEW o, o = "ok", NEW d, NEW u, NEW keep, NEW more,
              \/ Hello(d) \/ Refuse \/ Wait \/ Answer(u, o) \/ Withdraw(o) \/ Wake(d, o) \/ Drop(d, o)
              \/ StartRevoke(d) \/ GuiRead \/ SaveInventory(keep, more)
       PROVE  Quota'
  <2>1. /\ UNCHANGED <<pol, polDisk, crashes, configs, faults>>
        /\ op.at \notin {"register", "enlist", "bind", "count", "settle"}
        /\ op'.at \notin {"register", "enlist", "bind", "count", "settle"}
    <3>1. CASE Hello(d) \/ Refuse \/ Wait \/ StartRevoke(d) \/ GuiRead \/ SaveInventory(keep, more)
      BY <3>1 DEF Hello, Refuse, Wait, StartRevoke, GuiRead, SaveInventory, policy, bounds, Free,
                  Idle, Step
    <3>2. CASE Answer(u, o) \/ Withdraw(o) \/ Wake(d, o)
      BY <1>15, <3>2 DEF Answer, Withdraw, Revoke, Remove, Unbind, Unlist, WriteRows, Wake, GoOn,
                         policy, Free, Idle, Step
    <3>3. CASE Drop(d, o)
      <4>1. op \in Op /\ op' = [op EXCEPT !.todo = @ \ {d}] /\ op.at = "drop"
        BY <1>15, <3>3 DEF Drop, GoOn, RegSafe, RegInv, TypeOK
      <4>2. op'.at = "drop"
        BY <4>1 DEF Op
      <4>. QED  BY <1>15, <3>3, <4>1, <4>2 DEF Drop, GoOn, policy
    <3>. QED  BY <1>15, <3>1, <3>2, <3>3
  <2>2. Starting = 0 /\ Settling = 0 /\ Settling' = 0 /\ Starting' = 0 /\ Fresh = 0 /\ Fresh' = 0
    BY <2>1 DEF Starting, Settling, Fresh
  <2>. QED  BY <1>5, <2>1, <2>2
<1>16. ASSUME NEW o, o = "ok", NEW w, TakeUp(w) \/ Enlist(o) \/ Bind(o) PROVE Quota'
  <2>1. /\ UNCHANGED <<pol, polDisk, crashes, configs, faults>>
        /\ op.at \in {"enlist", "bind"} /\ op'.at \in {"bind", "count"}
    BY <1>16 DEF TakeUp, Enlist, Bind, GoOn, Step, policy, bounds
  <2>2. Starting = 0 /\ Settling = 0 /\ Settling' = 0 /\ Starting' = 0 /\ Fresh \in {0, 1} /\ Fresh' = 1
    BY <2>1 DEF Starting, Settling, Fresh
  <2>. QED  BY <1>5, <2>1, <2>2
<1>17. CASE Duplicate
  <2>1. /\ UNCHANGED <<pol, polDisk, crashes, configs, faults>>
        /\ op.at = "enlist" /\ op'.at = "idle" /\ op.host \in HostsOf(inv)
    BY <1>17 DEF Duplicate, Idle, policy, bounds, Unused
  <2>2. Starting = 0 /\ Settling = 0 /\ Settling' = 0 /\ Starting' = 0 /\ Fresh = 0 /\ Fresh' = 0
    BY <2>1 DEF Starting, Settling, Fresh
  <2>. QED  BY <1>5, <2>1, <2>2
<1>18. ASSUME NEW d, NEW n, Deny(d, n) PROVE Quota'
  <2>1. UNCHANGED <<pol, polDisk, crashes, configs, faults, op>> /\ op.at = "idle"
    BY <1>18 DEF Deny, policy, bounds, Free
  <2>2. Starting = 0 /\ Settling = 0 /\ Settling' = 0 /\ Starting' = 0 /\ Fresh = 0 /\ Fresh' = 0
    BY <2>1 DEF Starting, Settling, Fresh
  <2>. QED  BY <1>5, <2>1, <2>2
<1>19. \A o \in Outcomes : o = "ok" \/ o \in {"old", "new"}
  BY DEF Outcomes
<1>20. ASSUME NEW o \in Outcomes, NEW d, Wake(d, o) \/ Drop(d, o) \/ Enrol(o) \/ Withdraw(o)
       PROVE  Quota'
  BY <1>8, <1>9, <1>10, <1>11, <1>14, <1>15, <1>16, <1>19, <1>20 DEF Enrol
<1>. QED
  BY <1>6, <1>7, <1>12, <1>13, <1>15, <1>16, <1>17, <1>18, <1>20, OutcomeType, Zenon DEF Next

(* A device is complete on disk only when it was, or at the end of its registration.            *)
LEMMA CountsNext ==
  ASSUME RegSafe, Quota, CountsFit, RecordStep, RegInv', [Next]_vars
  PROVE  CountsFit'
<1>1. Numbers /\ Numbers' /\ RegInv /\ RecordsAgree /\ OpKnows /\ TypeOK
  BY QuotaTypes, QuotaTypesNext DEF RegSafe, RegInv
<1>2. ASSUME NEW d \in Devices, Finished(recDisk'[d])
      PROVE  Finished(recDisk[d]) \/ (op.at = "settle" /\ op.dev = d)
  <2>1. recDisk'[d] \in Record /\ rec'[d] \in Record /\ ~recDisk'[d].pending
    BY <1>2 DEF Finished, RegInv, Recorded
  <2>2. CASE rec[d] \in Record /\ \E y \in {rec[d], recDisk[d]} : ~y.pending
    <3>1. recDisk[d] \in Record /\ Agree(d, rec[d], recDisk[d])
      BY <1>1, <2>2, NoneAssumption DEF RegInv, Recorded, RecordsAgree
    <3>2. ~recDisk[d].pending
      BY <2>2, <3>1 DEF Agree
    <3>. QED  BY <3>1, <3>2, NoneAssumption DEF Finished
  <2>. QED  BY <2>1, <2>2 DEF RecordStep, Complete
<1>. DEFINE C == CountedAs(pol)
            D == CountedAs(polDisk)
<1>3. C \in SUBSET Devices /\ D \in SUBSET Devices /\ C' \in SUBSET Devices /\ D' \in SUBSET Devices
  BY DEF CountedAs
<1>4. /\ Cardinality(C) \in Nat /\ Cardinality(D) \in Nat
      /\ Cardinality(C') \in Nat /\ Cardinality(D') \in Nat
      /\ Cardinality(C) <= pol.used /\ Cardinality(D) <= polDisk.used
      /\ \A d \in Devices : Finished(recDisk[d]) => stamp[d] \in 0..configs
  BY <1>3, DeviceSets DEF CountsFit
<1>5. /\ \A d : d \in C <=> d \in Devices /\ Finished(recDisk[d]) /\ stamp[d] = pol.epoch
      /\ \A d : d \in D <=> d \in Devices /\ Finished(recDisk[d]) /\ stamp[d] = polDisk.epoch
      /\ \A d : d \in C' <=> d \in Devices /\ Finished(recDisk'[d]) /\ stamp'[d] = pol'.epoch
      /\ \A d : d \in D' <=> d \in Devices /\ Finished(recDisk'[d]) /\ stamp'[d] = polDisk'.epoch
  BY DEF CountedAs, Finished
<1>6. CountsFit' <=>
        /\ \A d \in Devices : Finished(recDisk'[d]) => stamp'[d] \in 0..configs'
        /\ Cardinality(C') <= pol'.used
        /\ Cardinality(D') <= polDisk'.used
        /\ op'.at = "settle" => Cardinality(C' \cup {op'.dev}) <= pol'.used
  BY DEF CountsFit, Finished
<1>7. op.at = "settle" => /\ Cardinality(C \cup {op.dev}) <= pol.used /\ pol = polDisk
                          /\ stamp[op.dev] = pol.epoch /\ op.dev \in Devices
  BY <1>1 DEF CountsFit, OpKnows, OpFits, Acting, Places, RegInv
<1>. HIDE DEF C, D
<1>8. ASSUME UNCHANGED <<pol, polDisk, stamp, configs>>, op.at # "settle", op'.at # "settle"
      PROVE  CountsFit'
  <2>1. C' \subseteq C /\ D' \subseteq D
    BY <1>2, <1>5, <1>8
  <2>2. Cardinality(C') <= Cardinality(C) /\ Cardinality(D') <= Cardinality(D)
    BY <1>3, <2>1, DeviceSets
  <2>3. \A d \in Devices : Finished(recDisk'[d]) => stamp'[d] \in 0..configs'
    BY <1>2, <1>4, <1>8
  <2>. QED  BY <1>1, <1>4, <1>6, <1>8, <2>2, <2>3 DEF Numbers
<1>9. CASE UNCHANGED vars
  BY <1>9 DEF vars, registry, policy, ghosts, bounds, CountsFit, CountedAs, Finished
<1>10. ASSUME NEW o, o = "ok", Count(o) PROVE CountsFit'
  <2>1. /\ pol' = [pol EXCEPT !.used = @ + 1] /\ polDisk' = pol' /\ pol \in Policy
        /\ stamp' = [stamp EXCEPT ![op.dev] = pol.epoch]
        /\ UNCHANGED <<recDisk, configs>>
        /\ op'.dev = op.dev /\ op.dev \in Devices
    BY <1>1, <1>10 DEF Count, GoOn, Step, File, RegInv, TypeOK, OpFits, Acting, Places, registry
  <2>2. pol'.used = pol.used + 1 /\ pol'.epoch = pol.epoch
    BY <2>1 DEF Policy
  <2>3. stamp'[op.dev] = pol.epoch /\ \A d \in Devices \ {op.dev} : stamp'[d] = stamp[d]
    BY <1>1, <2>1 DEF TypeOK
  <2>4. /\ C' \cup {op.dev} \subseteq C \cup {op.dev} /\ D' \subseteq C \cup {op.dev}
        /\ C' \cup {op.dev} \in SUBSET Devices /\ C \cup {op.dev} \in SUBSET Devices
    BY <1>3, <1>5, <2>1, <2>2, <2>3
  <2>5. /\ Cardinality(C') <= Cardinality(C' \cup {op.dev})
        /\ Cardinality(C' \cup {op.dev}) <= Cardinality(C \cup {op.dev})
        /\ Cardinality(D') <= Cardinality(C \cup {op.dev})
        /\ Cardinality(C \cup {op.dev}) <= Cardinality(C) + 1
        /\ Cardinality(C \cup {op.dev}) \in Nat /\ Cardinality(C' \cup {op.dev}) \in Nat
    BY <1>3, <2>4, DeviceSets
  <2>6. \A d \in Devices : Finished(recDisk'[d]) => stamp'[d] \in 0..configs'
    <3>1. pol.epoch \in 0..configs
      BY <1>1 DEF Quota, Numbers
    <3>. QED  BY <1>4, <2>1, <2>3, <3>1
  <2>. QED  BY <1>1, <1>4, <1>6, <2>1, <2>2, <2>5, <2>6 DEF Numbers
<1>11. ASSUME NEW o \in {"old", "new"}, Count(o) PROVE CountsFit'
  <2>1. /\ pol' = [pol EXCEPT !.used = @ + 1] /\ polDisk' \in {polDisk, pol'} /\ pol \in Policy
        /\ UNCHANGED <<recDisk, configs, stamp>> /\ op'.at = "idle"
    BY <1>1, <1>11 DEF Count, GoOn, Idle, File, TypeOK, registry
  <2>2. pol'.used = pol.used + 1 /\ pol'.epoch = pol.epoch
    BY <2>1 DEF Policy
  <2>3. C' = C /\ (D' = C \/ polDisk' = polDisk) /\ (D' = D \/ polDisk' = pol')
    BY <1>5, <2>1, <2>2
  <2>4. CASE polDisk' = pol' /\ D' = C
    BY <1>1, <1>4, <1>6, <2>1, <2>2, <2>3, <2>4 DEF Numbers
  <2>5. CASE polDisk' = polDisk /\ D' = D
    BY <1>1, <1>4, <1>6, <2>1, <2>2, <2>3, <2>5 DEF Numbers
  <2>6. polDisk' = polDisk => D' = D
    BY <1>5, <2>1
  <2>7. polDisk' = pol' => D' = C
    BY <1>5, <2>1, <2>2
  <2>. QED  BY <2>1, <2>4, <2>5, <2>6, <2>7
<1>12. ASSUME NEW o, Settle(o) PROVE CountsFit'
  <2>1. UNCHANGED <<pol, polDisk, stamp, configs>> /\ op.at = "settle" /\ op'.at # "settle"
    BY <1>12 DEF Settle, GoOn, Idle, Step, policy, ghosts
  <2>2. C' \subseteq C \cup {op.dev} /\ D' \subseteq C \cup {op.dev} /\ C \cup {op.dev} \in SUBSET Devices
    BY <1>2, <1>3, <1>5, <1>7, <2>1
  <2>3. /\ Cardinality(C') <= Cardinality(C \cup {op.dev}) /\ Cardinality(D') <= Cardinality(C \cup {op.dev})
        /\ Cardinality(C \cup {op.dev}) \in Nat
    BY <1>3, <2>2, DeviceSets
  <2>4. pol.epoch \in 0..configs
    BY <1>1 DEF Quota, Numbers
  <2>5. \A d \in Devices : Finished(recDisk'[d]) => stamp'[d] \in 0..configs'
    BY <1>2, <1>4, <1>7, <2>1, <2>4
  <2>. QED  BY <1>1, <1>4, <1>6, <1>7, <2>1, <2>3, <2>5 DEF Numbers
<1>13. ASSUME NEW m \in Limits, NEW open \in BOOLEAN, NEW o \in {"ok", "old", "new"},
              Configure(m, open, o)
       PROVE  CountsFit'
  <2>. DEFINE p == [open |-> open, max |-> m, used |-> 0, epoch |-> configs + 1]
  <2>1. p.max = m /\ p.used = 0 /\ p.epoch = configs + 1
    OBVIOUS
  <2>2. /\ polDisk' \in {polDisk, p} /\ pol' \in {pol, p}
        /\ configs' = configs + 1 /\ UNCHANGED <<recDisk, stamp>>
        /\ op'.at = "idle"
    BY <1>13 DEF Configure, Free, File, registry, ghosts
  <2>. HIDE DEF p
  <2>3. ASSUME NEW d \in Devices, Finished(recDisk'[d])
        PROVE  stamp'[d] \in 0..configs' /\ stamp'[d] # p.epoch
    <3>1. stamp'[d] \in 0..configs /\ configs \in Nat
      BY <1>1, <1>4, <2>2, <2>3 DEF Numbers
    <3>. QED  BY <2>1, <2>2, <3>1
  <2>4. pol' = pol => C' = C
    BY <1>5, <2>2
  <2>5. pol' = p => C' = {}
    BY <1>5, <2>3
  <2>6. polDisk' = polDisk => D' = D
    BY <1>5, <2>2
  <2>7. polDisk' = p => D' = {}
    BY <1>5, <2>3
  <2>8. Cardinality({}) = 0
    BY FS_EmptySet
  <2>9. Cardinality(C') <= pol'.used
    BY <1>4, <2>1, <2>2, <2>4, <2>5, <2>8
  <2>10. Cardinality(D') <= polDisk'.used
    <3>1. CASE polDisk' = polDisk
      BY <1>4, <2>6, <3>1
    <3>2. CASE polDisk' = p
      BY <2>1, <2>7, <2>8, <3>2
    <3>. QED  BY <2>2, <3>1, <3>2
  <2>. QED  BY <1>6, <2>2, <2>3, <2>9, <2>10
<1>14. CASE Crash
  <2>1. pol' = polDisk /\ polDisk' = polDisk /\ UNCHANGED <<recDisk, stamp, configs>> /\ op'.at = "idle"
    BY <1>14 DEF Crash, Idle, ghosts
  <2>2. C' = D /\ D' = D
    BY <1>5, <2>1
  <2>. QED  BY <1>4, <1>6, <2>1, <2>2
<1>15. \A o \in Outcomes : o = "ok" \/ o \in {"old", "new"}
  BY DEF Outcomes
<1>16. ASSUME NEW o \in Outcomes, NEW d,
              \/ Register(o) \/ Enlist(o) \/ Bind(o) \/ (\E u \in BOOLEAN : Answer(u, o))
              \/ Withdraw(o) \/ Wake(d, o) \/ Drop(d, o)
       PROVE  CountsFit'
  <2>1. UNCHANGED <<pol, polDisk, stamp, configs>> /\ op.at # "settle"
    BY <1>16 DEF Register, Enlist, Bind, Answer, Withdraw, Revoke, Remove, Unbind, Unlist,
                 WriteRows, Wake, Drop, GoOn, policy, ghosts, Free
  <2>2. op'.at # "settle"
    <3>1. CASE Drop(d, o)
      <4>1. op \in Op /\ op.at = "drop" /\ op' \in {Idle, [op EXCEPT !.todo = @ \ {d}]}
        BY <1>1, <3>1 DEF Drop, GoOn, TypeOK
      <4>. QED  BY <4>1 DEF Op, Idle
    <3>2. CASE Wake(d, o)
      BY <2>1, <3>2 DEF Wake
    <3>3. CASE \/ Register(o) \/ Enlist(o) \/ Bind(o) \/ (\E u \in BOOLEAN : Answer(u, o))
               \/ Withdraw(o)
      <4>1. ASSUME NEW next, GoOn(o, next), next.at # "settle" PROVE op'.at # "settle"
        BY <4>1 DEF GoOn, Idle
      <4>2. Idle.at = "idle" /\ \A place, e, h : Step(place, e, h).at = place
        BY DEF Idle, Step
      <4>3. CASE Revoke(o)
        <5>1. PICK next \in {Idle, Step("remove", op.dev, op.host)} : GoOn(o, next)
          BY <4>3 DEF Revoke
        <5>. QED  BY <4>1, <4>2, <5>1
      <4>4. CASE ~Revoke(o)
        <5>1. CASE Register(o) \/ Enlist(o) \/ Bind(o)
          BY <4>2, <5>1 DEF Register, Enlist, Bind, GoOn
        <5>2. CASE \E u \in BOOLEAN : Answer(u, o)
          BY <4>2, <5>2 DEF Answer, GoOn
        <5>3. CASE Remove(o) \/ Unbind(o) \/ Unlist(o) \/ WriteRows(o)
          BY <4>2, <5>3 DEF Remove, Unbind, Unlist, WriteRows, GoOn
        <5>. QED  BY <3>3, <4>4, <5>1, <5>2, <5>3 DEF Withdraw
      <4>. QED  BY <4>3, <4>4
    <3>. QED  BY <1>16, <3>1, <3>2, <3>3
  <2>. QED  BY <1>8, <2>1, <2>2
<1>17. ASSUME NEW d, NEW n, NEW w, NEW keep, NEW more,
              \/ Hello(d) \/ Exchange(d, n) \/ Deny(d, n) \/ TakeUp(w) \/ Duplicate \/ Refuse
              \/ Wait \/ StartRevoke(d) \/ GuiRead \/ SaveInventory(keep, more)
       PROVE  CountsFit'
  <2>1. UNCHANGED <<pol, polDisk, stamp, configs>> /\ op.at # "settle" /\ op'.at # "settle"
    BY <1>17 DEF Hello, Exchange, Deny, TakeUp, Duplicate, Refuse, Wait, StartRevoke, GuiRead,
                 SaveInventory, policy, ghosts, bounds, Free, Idle, Step
  <2>. QED  BY <1>8, <2>1
<1>18. ASSUME NEW o \in Outcomes, Enrol(o) PROVE CountsFit'
  BY <1>10, <1>11, <1>12, <1>15, <1>16, <1>18 DEF Enrol
<1>. QED
  BY <1>9, <1>13, <1>14, <1>16, <1>17, <1>18, OutcomeType, Zenon DEF Next

LEMMA SafeCounted == RegSafe /\ Quota /\ CountsFit => EnrolmentCounted /\ LimitKept
<1>. SUFFICES ASSUME RegSafe, Quota, CountsFit PROVE EnrolmentCounted /\ LimitKept
  OBVIOUS
<1>1. Numbers /\ OpKnows
  BY QuotaTypes DEF RegSafe
<1>2. LimitKept
  <2>1. CASE op.at = "settle"
    <3>1. op.dev \in Unfinished
      BY <2>1 DEF RegSafe, RegInv, OpKnows, OpFits, Acting, Places, Enrolling, Unfinished
    <3>2. Cardinality(Unfinished) # 0
      BY <3>1, FS_EmptySet, DeviceSets DEF Unfinished
    <3>. QED  BY <1>1, <2>1, <3>2 DEF Quota, Numbers, Starting, Settling, LimitKept
  <2>2. CASE op.at # "settle"
    BY <1>1, <2>2 DEF Quota, Numbers, Starting, Settling, LimitKept
  <2>. QED  BY <2>1, <2>2
<1>3. Counted(polDisk, recDisk)
  BY DEF CountsFit, CountedAs, Counted
<1>4. Counted(pol, rec)
  <2>. DEFINE F == {d \in Devices : Finished(rec[d]) /\ stamp[d] = pol.epoch}
  <2>1. ASSUME NEW d \in Devices, Finished(rec[d]) PROVE Finished(recDisk[d])
    <3>1. rec[d] \in Record /\ recDisk[d] \in Record
      BY <2>1 DEF RegSafe, RegInv, Recorded, Finished
    <3>2. ~recDisk[d].pending
      BY <2>1, <3>1 DEF RegSafe, RecordsAgree, Agree, Finished
    <3>. QED  BY <3>1, <3>2, NoneAssumption DEF Finished
  <2>2. F \subseteq CountedAs(pol) /\ F \in SUBSET Devices /\ CountedAs(pol) \in SUBSET Devices
    BY <2>1 DEF CountedAs
  <2>3. /\ Cardinality(F) <= Cardinality(CountedAs(pol))
        /\ Cardinality(F) \in Nat /\ Cardinality(CountedAs(pol)) \in Nat
    BY <2>2, DeviceSets
  <2>4. Cardinality(F) <= pol.used
    BY <1>1, <2>3 DEF CountsFit, Numbers
  <2>. QED  BY <2>4 DEF Counted
<1>. QED  BY <1>2, <1>3, <1>4 DEF EnrolmentCounted

-------------------------------------------------------------------------------
(* What is registered, and what was removed *)

LEMMA SafeListed == RegSafe => AdmittedAreListed
<1>. SUFFICES ASSUME RegSafe, NEW d \in Devices, Admitted(d),
                     ~NameRemoved(d, rec[d].host)
              PROVE  rec[d].host \in HostsOf(inv) /\ bound[rec[d].host] = d
  BY DEF AdmittedAreListed
<1>1. /\ rec[d] \in Record /\ ~rec[d].pending /\ ~rec[d].revoked
      /\ rec[d].host \in Hosts
  BY DEF RegSafe, RegInv, Recorded, Admitted, Finished, Record
<1>2. ~Spoiled(rec[d].host)
  <2>. SUFFICES ASSUME NEW e \in Devices, Removed(e), recDisk[e].host = rec[d].host PROVE FALSE
    BY DEF Spoiled
  <2>1. rec[e] \in Record /\ Agree(e, rec[e], recDisk[e])
    BY NoneAssumption DEF RegSafe, RegInv, Recorded, Removed, RecordsAgree
  <2>2. recDisk[e] = rec[e] /\ rec[e].removed /\ rec[e].revoked
    BY <2>1 DEF Agree, Removed
  <2>. QED  BY <1>1, <2>1, <2>2, NoneAssumption DEF NameRemoved, Known
<1>3. bound[rec[d].host] = d /\ Live(d)
  BY <1>1, <1>2 DEF RegSafe, RegisteredHold, Registered, Live
<1>. QED  BY <1>1, <1>2, <1>3 DEF RegSafe, NamesHeld, Held

LEMMA SafeGone == RegSafe => RemovedIsGone
<1>. SUFFICES ASSUME RegSafe, NEW d \in gone, Finished(rec[d]),
                     ~NameRemoved(d, Plain(rec[d].host[1]))
              PROVE  /\ \A h \in Hosts : bound[h] # d /\ boundDisk[h] # d
                     /\ \A w \in inv : w.agent # d
  BY DEF RemovedIsGone
<1>1. d \in Devices /\ rec[d] \in Record /\ ~rec[d].pending
  BY DEF RegSafe, RegInv, TypeOK, Recorded, Finished
<1>2. Clean(d)
  <2>. SUFFICES ASSUME NEW e \in Devices \ {d}, Removed(e),
                       recDisk[e].host = Plain(Called(rec[d].host))
                PROVE  FALSE
    BY DEF Clean
  <2>1. rec[e] \in Record /\ Agree(e, rec[e], recDisk[e])
    BY NoneAssumption DEF RegSafe, RegInv, Recorded, Removed, RecordsAgree
  <2>2. recDisk[e] = rec[e] /\ rec[e].removed
    BY <2>1 DEF Agree, Removed
  <2>. QED  BY <2>1, <2>2, NoneAssumption DEF NameRemoved, Known, Called
<1>3. \A h \in Hosts : ~Has(d, h)
  BY <1>1, <1>2 DEF RegSafe, NamesAreOne, One
<1>4. \A w \in inv : w.host \in Hosts
  BY DEF RegSafe, RegInv, TypeOK, Row
<1>. QED  BY <1>3, <1>4 DEF Has

(* A removal that was reported as done leaves no row and no binding, unless an older device     *)
(* that called itself the same was removed too.                                                 *)
THEOREM RemovedHolds == Spec => []RemovedIsGone
<1>1. Init => RegSafe
  BY RegSafeInit
<1>2. RegSafe /\ [Next]_vars => RegSafe'
  BY RegSafeNext
<1>. QED  BY <1>1, <1>2, SafeGone, PTL DEF Spec

(* What is registered is listed, bound and counted, within the limit: whatever writes fail and  *)
(* wherever SERVER stops, and however many devices and operators come in between.               *)
THEOREM RegistrationsCorrect == Spec => []RegistrationsHold
<1>1. Init => RegSafe /\ Quota /\ CountsFit
  BY RegSafeInit, QuotaInit
<1>2. RegSafe /\ Quota /\ CountsFit /\ [Next]_vars => (RegSafe /\ Quota /\ CountsFit)'
  <2>. SUFFICES ASSUME RegSafe, Quota, CountsFit, [Next]_vars
                PROVE  RegSafe' /\ Quota' /\ CountsFit'
    OBVIOUS
  <2>1. RegSafe' /\ RecordStep /\ RegInv'
    BY RegSafeNext DEF RegSafe
  <2>. QED  BY <2>1, QuotaNext, CountsNext
<1>3. RegSafe /\ Quota /\ CountsFit => RegistrationsHold
  BY SafeListed, SafeCounted DEF RegistrationsHold
<1>. QED  BY <1>1, <1>2, <1>3, PTL DEF Spec
===============================================================================

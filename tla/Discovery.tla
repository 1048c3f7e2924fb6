------------------------------- MODULE Discovery -------------------------------
(* Discovery of a CLIENT over SSH (ci/collector.py): probes of what the     *)
(* login can read, as root for what it cannot, then the limits of the       *)
(* control group it is in; what is made of the answers, unknown ones as     *)
(* well, while the machine is given more or fewer processors.               *)
EXTENDS Naturals, FiniteSets, FiniteSetsExt

CONSTANTS
  Units,           \* processors, memory and their limits, 1..n
  MaxUnread,       \* bound: sections the login cannot read
  MaxChanges,      \* bound: times the machine is changed meanwhile
  MaxFaults,       \* bound: broken connections and roots that do not answer
  None

Families == {"linux", "aix", "windows"}
Sections == {"logical_cpus", "affinity_cpus", "smt_active", "lscpu", "cgroup", "serial_number"}

VARIABLES
  family,
  smt,             \* truth: processors run more than one thread per core
  siblings,        \* two threads of one core are online, and processors lscpu may report twice
  sockets,         \* Windows: cores, enabled cores and threads of each processor, None if not told
  cpu,             \* processors of the machine, of the process; quotas of its group and those above
  group,           \* the control group of the process: v2, v2 whose parents are hidden, or v1
  sees,            \* sections the login can read
  at, raw,         \* collect: where it is and what it has
  row,             \* what it returns, None if it raised
  was,             \* ghost: values cpu had since the collection began
  changes, faults

machine == <<family, smt, siblings, sockets, group, sees>>
vars == <<machine, cpu, at, raw, row, was, changes, faults>>

Cpu == [logical : Units, affinity : Units, quotas : SUBSET Units]
Possible(c) == c.affinity <= c.logical
Socket == [cores : {2, None}, enabled : {1, 2, None}, logical : {1, 2, 4, None}]

(* What Windows says of a processor with two cores, of which one or two are *)
(* enabled; a count it does not tell is None.  Assumption: a Windows that   *)
(* does not tell how many cores are enabled has all of them enabled.        *)
Told(on) ==
  {s \in Socket : \E enabled \in {1, 2} :
     /\ s.cores \in {2, None} /\ s.enabled \in {enabled, None}
     /\ (enabled = 1 => s.enabled = 1)
     /\ s.logical \in {IF on THEN 2 * enabled ELSE enabled, None}}

TypeOK ==
  /\ family \in Families /\ smt \in BOOLEAN /\ siblings \in BOOLEAN
  /\ sockets \subseteq Socket /\ cpu \in Cpu /\ group \in {"v2", "v1", "hidden"}
  /\ sees \subseteq Sections /\ at \in {"probe", "root", "limits", "parse", "done"}
  /\ was \subseteq Cpu /\ changes \in 0..MaxChanges /\ faults \in 0..MaxFaults

(* Assumption: what the constants may be.                                   *)
SettingOK ==
  /\ MaxChanges \in Nat /\ MaxFaults \in Nat
  /\ Units \subseteq Nat /\ 1 \in Units
  /\ None \notin Units /\ None \notin BOOLEAN /\ None \notin {1, 2, 4}
  /\ None \notin {"v2", "v1", "hidden"}
  /\ \A quotas \in SUBSET Units : quotas # None

Init ==
  /\ family \in Families /\ smt \in BOOLEAN /\ siblings \in {FALSE, smt}
  /\ sockets \in IF family = "windows" THEN {s \in SUBSET Told(smt) : Cardinality(s) <= 2} ELSE {{}}
  /\ cpu \in IF family = "linux" THEN {c \in Cpu : Possible(c)}
             ELSE {[logical |-> 1, affinity |-> 1, quotas |-> {}]}
  /\ group \in IF family = "linux" THEN {"v2", "v1", "hidden"} ELSE {"hidden"}
  /\ sees \in IF family = "windows" THEN {Sections}
             ELSE {s \in SUBSET Sections : Cardinality(Sections \ s) <= MaxUnread}
  /\ at = "probe" /\ raw = None /\ row = None /\ was = {cpu}
  /\ changes = 0 /\ faults = 0

-------------------------------------------------------------------------------
Change ==
  /\ family = "linux" /\ at # "done" /\ changes < MaxChanges /\ changes' = changes + 1
  /\ \E c \in Cpu : Possible(c) /\ c # cpu /\ cpu' = c /\ was' = was \cup {c}
  /\ UNCHANGED <<machine, at, raw, row, faults>>

Fault == faults < MaxFaults /\ faults' = faults + 1
Failed == Fault /\ at' = "done" /\ UNCHANGED <<raw, row>>

Read(section, value) == IF section \in sees THEN value ELSE None

Answers ==
  [logical |-> Read("logical_cpus", cpu.logical), affinity |-> Read("affinity_cpus", cpu.affinity),
   active |-> Read("smt_active", smt), twice |-> "lscpu" \in sees /\ siblings,
   serial |-> "serial_number" \in sees, group |-> Read("cgroup", group), quotas |-> None]

(* The first capture; one without a hostname is an error.                   *)
Probe ==
  /\ at = "probe"
  /\ \/ /\ raw' = Answers /\ UNCHANGED <<row, faults>>
        /\ at' = IF family # "linux" THEN "parse" ELSE IF raw'.serial THEN "limits" ELSE "root"
     \/ Failed
  /\ UNCHANGED <<machine, cpu, was, changes>>

(* What only root can read; without root it stays unknown.                  *)
Root ==
  /\ at = "root" /\ at' = "limits"
  /\ \/ raw' = [raw EXCEPT !.serial = TRUE] /\ UNCHANGED faults
     \/ Fault /\ UNCHANGED raw
  /\ UNCHANGED <<machine, cpu, row, was, changes>>

(* Limits of a v2 group and of all above it.  A command that exits with an  *)
(* error leaves them unknown, a connection that breaks ends the collection. *)
Limits ==
  /\ at = "limits"
  /\ IF raw.group \notin {"v2", "hidden"} THEN at' = "parse" /\ UNCHANGED <<raw, row, faults>>
     ELSE \/ /\ at' = "parse" /\ UNCHANGED <<row, faults>>
             /\ \E quotas \in IF group = "v2" THEN {cpu.quotas} ELSE SUBSET cpu.quotas :
                  raw' = [raw EXCEPT !.quotas = quotas]
          \/ Fault /\ at' = "parse" /\ UNCHANGED <<raw, row>>
          \/ Failed
  /\ UNCHANGED <<machine, cpu, was, changes>>

-------------------------------------------------------------------------------
(* parse_linux: the least of the limits that are known.                     *)
Known(r) ==
  ({r.logical, r.affinity} \ {None}) \cup (IF r.quotas = None THEN {} ELSE r.quotas)
Allocated(r) == IF Known(r) = {} THEN None ELSE Min(Known(r))

Warnings(r) ==
  (IF Allocated(r) = None THEN {"allocated_cpus"} ELSE {})
  \cup (IF r.serial THEN {} ELSE {"serial_number"})
  \cup (IF r.group # None /\ r.quotas = None THEN {"cgroup"} ELSE {})

(* Linux: what the kernel says, or a core that is listed twice; off is never*)
(* concluded from counts.                                                   *)
MutantLinuxSmt(r) ==
  IF r.active # None THEN (IF r.active THEN "on" ELSE "off")
  ELSE IF r.twice THEN "on" ELSE "off"

LinuxSmt(r) ==
  IF r.active # None THEN (IF r.active THEN "on" ELSE "off")
  ELSE IF r.twice THEN "on" ELSE "unknown"

(* windows_smt: the enabled cores of a processor, or its cores where those  *)
(* are not told; one with more threads than cores is enough for on.         *)
Cores(s) == IF s.enabled # None THEN s.enabled ELSE s.cores
Unclear(s) == Cores(s) = None \/ s.logical = None \/ s.logical < Cores(s)

MutantWindowsSmt ==
  IF \E s \in sockets : ~Unclear(s) /\ s.logical > Cores(s) THEN "on"
  ELSE IF sockets = {} THEN "unknown" ELSE "off"

WindowsSmt ==
  IF \E s \in sockets : ~Unclear(s) /\ s.logical > Cores(s) THEN "on"
  ELSE IF sockets = {} \/ \E s \in sockets : Unclear(s) THEN "unknown" ELSE "off"

(* parse_aix: smtctl says enabled or disabled, or nothing can be said.      *)
AixSmt(r) == IF r.active = None THEN "unknown" ELSE IF r.active THEN "on" ELSE "off"

Parse ==
  /\ at = "parse" /\ at' = "done"
  /\ row' = CASE family = "linux" ->
                   [smt |-> LinuxSmt(raw), cpus |-> Allocated(raw), warnings |-> Warnings(raw)]
              [] family = "aix" -> [smt |-> AixSmt(raw), cpus |-> raw.logical, warnings |-> {}]
              [] OTHER -> [smt |-> WindowsSmt, cpus |-> cpu.logical, warnings |-> {}]
  /\ UNCHANGED <<machine, cpu, raw, was, changes, faults>>

Next == Change \/ Probe \/ Root \/ Limits \/ Parse

Spec == Init /\ [][Next]_vars

-------------------------------------------------------------------------------
(* Properties *)

Completed == at = "done" /\ row # None

(* "Never conclude that it is off from the numbers of CPUs and cores alone" *)
(* (ci/collector.py:82): on and off are only said when they are true.       *)
SmtIsTrue == Completed => row.smt \in {"unknown", IF smt THEN "on" ELSE "off"}

(* "The least of the CPUs of the OS, the affinity and the quotas of the     *)
(* group and those above it" (docs/ci-dashboard.md): unless a warning says  *)
(* that limits were not read, and where the group's parents are visible, it *)
(* is the least of what the machine had when each of them was read.         *)
AllocationIsTrue ==
  (/\ Completed /\ family = "linux" /\ group # "hidden" /\ "cgroup" \notin row.warnings
   /\ {"affinity_cpus", "cgroup"} \subseteq sees) =>
      \E first, last \in was : row.cpus = Min({first.affinity} \cup last.quotas)

DiscoveryIsHonest == SmtIsTrue /\ AllocationIsTrue
===============================================================================

-------------------------------- MODULE Backups --------------------------------
(* Backups of one CLIENT and their comparison with its current              *)
(* configuration (backup/collector.py, backup/compare.py): files are read   *)
(* one after the other from a host that changes meanwhile, over a           *)
(* connection that can break, and stored by writes that can fail.           *)
EXTENDS Naturals, FiniteSets

CONSTANTS
  Files,           \* the configuration files a capture looks for
  MaxChanges,      \* bound: changes of files
  MaxFaults,       \* bound: failures and restarts of SERVER
  None

VARIABLES
  real,            \* version of a file on the host, 0 where there is none
  changes, faults,
  at,              \* where the worker of SERVER is
  capture,         \* files tested and read by the command under way, and whether it complained
  artifact,        \* the record of configuration_files
  content, metadata, manifest,     \* encrypted files of the backup, None if not written
  result,          \* the host's row in the backup job, None while it is not finished
  report,          \* the comparison on disk, None if there is none
  row,             \* the host's row in the comparison job
  then, now,       \* ghost: versions a file had during the backup, during the comparison
  overtaken        \* ghost: captures that lost output: the exit status overtook it

vars == <<real, changes, faults, at, capture, artifact, content, metadata, manifest, result,
          report, row, then, now, overtaken>>

Versions == 0..MaxChanges + 1
Listing == [Files -> Versions]          \* the files of an archive, 0 where it has none
Statuses == {"completed", "partial", "failed"}
Ats == {"idle", "backup", "store", "describe", "note", "commands",
        "compare", "current", "report"}

TypeOK ==
  /\ real \in Listing /\ changes \in 0..MaxChanges /\ faults \in 0..MaxFaults
  /\ at \in Ats
  /\ capture \in [tested : SUBSET Files, present : SUBSET Files, got : Listing,
                  left : SUBSET Files, clean : BOOLEAN]
  /\ artifact \in Statuses /\ content \in Listing \cup {None} /\ metadata \in BOOLEAN
  /\ manifest \in [status : Statuses \cup {"running"}, artifact : Statuses] \cup {None}
  /\ result \in [status : Statuses, artifact : Statuses \cup {None}] \cup {None}
  /\ report \in [Files -> {"added", "removed", "changed", "unchanged"}] \cup {None}
  /\ row \in {None, "completed", "failed"}
  /\ then \in [Files -> SUBSET Versions] /\ now \in [Files -> SUBSET Versions]
  /\ overtaken \in SUBSET {"backup", "compare"}

(* Assumption: what the constants may be.                                   *)
SettingOK ==
  /\ MaxChanges \in Nat /\ MaxFaults \in Nat
  /\ None \notin Listing /\ None \notin Statuses
  /\ None \notin [status : Statuses \cup {"running"}, artifact : Statuses]
  /\ None \notin [status : Statuses, artifact : Statuses \cup {None}]
  /\ None \notin [Files -> {"added", "removed", "changed", "unchanged"}]

Fresh == [tested |-> {}, present |-> {}, got |-> [f \in Files |-> 0], left |-> {}, clean |-> TRUE]
Reading == at \in {"backup", "compare"}

Init ==
  /\ real \in [Files -> {0, 1}] /\ changes = 0 /\ faults = 0
  /\ at = "idle" /\ capture = Fresh /\ artifact = "failed"
  /\ content = None /\ metadata = FALSE /\ manifest = None /\ result = None
  /\ report = None /\ row = None
  /\ then = [f \in Files |-> {}] /\ now = then /\ overtaken = {}

Fault == faults < MaxFaults /\ faults' = faults + 1
Written == content = None /\ manifest = None

-------------------------------------------------------------------------------
(* The host: a file appears, changes or goes at any time.  On SERVER a write*)
(* fails before its rename, or after it (storage/encrypted.py).             *)
Change(f) ==
  /\ changes < MaxChanges /\ changes' = changes + 1
  /\ \E v \in {0, changes + 2} : v # real[f] /\ real' = [real EXCEPT ![f] = v]
  /\ then' = IF at = "backup" THEN [then EXCEPT ![f] = @ \cup {real'[f]}] ELSE then
  /\ now' = IF at = "compare" THEN [now EXCEPT ![f] = @ \cup {real'[f]}] ELSE now
  /\ UNCHANGED <<faults, at, capture, artifact, content, metadata, manifest, result, report, row,
                 overtaken>>

(* unix_archive: tests every path, then reads those that were there.  One   *)
(* that is gone, or cannot be read, is left out with a complaint; one that  *)
(* was not there is an optional path and none.                              *)
Test(f) ==
  /\ Reading /\ f \notin capture.tested
  /\ capture' = [capture EXCEPT !.tested = @ \cup {f},
       !.present = IF real[f] = 0 THEN @ ELSE @ \cup {f},
       !.left = IF real[f] = 0 THEN @ ELSE @ \cup {f}]
  /\ UNCHANGED <<real, changes, faults, at, artifact, content, metadata, manifest, result,
                 report, row, then, now, overtaken>>

Read(f) ==
  /\ Reading /\ capture.tested = Files /\ f \in capture.left
  /\ \/ /\ real[f] # 0 /\ UNCHANGED faults
        /\ capture' = [capture EXCEPT !.left = @ \ {f}, !.got[f] = real[f]]
     \/ /\ IF real[f] = 0 THEN UNCHANGED faults ELSE Fault
        /\ capture' = [capture EXCEPT !.left = @ \ {f}, !.clean = FALSE]
  /\ UNCHANGED <<real, changes, at, artifact, content, metadata, manifest, result,
                 report, row, then, now, overtaken>>

(* The loop of capture reads until the exit status is there and nothing is  *)
(* ready: files whose bytes come later are lost, with the status of a       *)
(* command that read them all.                                              *)
Cut(c, lost) == [c EXCEPT !.got = [f \in Files |-> IF f \in lost THEN 0 ELSE c.got[f]]]

(* The command ends, or the connection does and what was read has no exit   *)
(* status of its own (-1).                                                  *)
Ended(c) ==
  \/ /\ c.tested = Files /\ c.left = {} /\ c.present # {} /\ UNCHANGED faults
     /\ \/ capture' = c /\ UNCHANGED overtaken
        \/ /\ \E lost \in SUBSET c.present \ {{}} : capture' = Cut(c, lost)
           /\ overtaken' = overtaken \cup {at}
  \/ /\ c.tested = Files /\ c.present = {} /\ capture' = [c EXCEPT !.clean = FALSE]
     /\ UNCHANGED <<faults, overtaken>>
  \/ Fault /\ capture' = [c EXCEPT !.clean = FALSE] /\ UNCHANGED overtaken

-------------------------------------------------------------------------------
(* backup_server, first step: the status of a record is failed until the    *)
(* content is stored, and again if its description is not.                  *)
Backup ==
  /\ at = "idle" /\ Written
  /\ at' = "backup" /\ capture' = Fresh /\ then' = [f \in Files |-> {real[f]}]
  /\ overtaken' = overtaken \ {"backup"}
  /\ UNCHANGED <<real, changes, faults, artifact, content, metadata, manifest, result,
                 report, row, now>>

(* A timeout, or more output than allowed, raises: nothing is stored.       *)
Captured ==
  /\ at = "backup"
  /\ \/ Ended(capture) /\ at' = "store"
     \/ Fault /\ at' = "note" /\ UNCHANGED <<capture, overtaken>>
  /\ artifact' = "failed"
  /\ UNCHANGED <<real, changes, content, metadata, manifest, result, report, row, then, now>>

MutantVerdict(c) == IF c.got # [f \in Files |-> 0] THEN "completed" ELSE "partial"
Verdict(c) == IF c.clean THEN "completed" ELSE "partial"

MutantStore ==
  /\ at = "store" /\ artifact' = Verdict(capture)
  /\ \/ content' = capture.got /\ at' = "describe" /\ UNCHANGED faults
     \/ Fault /\ at' = "note" /\ content' \in {content, capture.got}
  /\ UNCHANGED <<real, changes, capture, metadata, manifest, result, report, row, then, now,
                 overtaken>>

Store ==
  /\ at = "store"
  /\ \/ content' = capture.got /\ at' = "describe" /\ artifact' = Verdict(capture) /\ UNCHANGED faults
     \/ Fault /\ at' = "note" /\ content' \in {content, capture.got} /\ UNCHANGED artifact
  /\ UNCHANGED <<real, changes, capture, metadata, manifest, result, report, row, then, now,
                 overtaken>>

Describe ==
  /\ at = "describe" /\ at' = "note"
  /\ \/ metadata' = TRUE /\ UNCHANGED <<faults, artifact>>
     \/ Fault /\ metadata' \in BOOLEAN /\ artifact' = "failed"
  /\ UNCHANGED <<real, changes, capture, content, manifest, result, report, row, then, now,
                 overtaken>>

(* The manifest is written after every step; when that fails the whole      *)
(* backup raises, and the row of the host is a failed one without artifacts.*)
Publish(m, done) ==
  \/ manifest' = m /\ done /\ UNCHANGED faults
  \/ /\ Fault /\ manifest' \in {manifest, m}
     /\ at' = "idle" /\ result' = [status |-> "failed", artifact |-> None]

Note ==
  /\ at = "note"
  /\ Publish([status |-> "running", artifact |-> artifact], at' = "commands" /\ UNCHANGED result)
  /\ UNCHANGED <<real, changes, capture, artifact, content, metadata, report, row, then, now,
                 overtaken>>

(* The steps that store the output of commands, as one: it ends with the    *)
(* status that decides the whole, and the manifest is written again.        *)
Whole(statuses) ==
  IF statuses = {"completed"} THEN "completed"
  ELSE IF statuses = {"failed"} THEN "failed" ELSE "partial"

Commands ==
  /\ at = "commands"
  /\ \E status \in Statuses :
       Publish([status |-> Whole({artifact, status}), artifact |-> artifact],
               /\ at' = "idle"
               /\ result' = [status |-> Whole({artifact, status}), artifact |-> artifact])
  /\ UNCHANGED <<real, changes, capture, artifact, content, metadata, report, row, then, now,
                 overtaken>>

-------------------------------------------------------------------------------
(* current_compare: a baseline that is not complete, and a capture that is  *)
(* not, are refused.                                                        *)
MutantUsable == result # None /\ result.artifact \in {"completed", "partial"}
Usable == result # None /\ result.artifact = "completed"

Compare ==
  /\ at = "idle" /\ row = None
  /\ IF Usable
     THEN /\ at' = "compare" /\ capture' = Fresh /\ now' = [f \in Files |-> {real[f]}]
          /\ overtaken' = overtaken \ {"compare"} /\ UNCHANGED row
     ELSE row' = "failed" /\ UNCHANGED <<at, capture, now, overtaken>>
  /\ UNCHANGED <<real, changes, faults, artifact, content, metadata, manifest, result, report, then>>

Current ==
  /\ at = "compare"
  /\ \/ Ended(capture) /\ at' = "current" /\ UNCHANGED row
     \/ Fault /\ at' = "idle" /\ row' = "failed" /\ UNCHANGED <<capture, overtaken>>
  /\ UNCHANGED <<real, changes, artifact, content, metadata, manifest, result, report, then, now>>

Difference(old, new) ==
  CASE old = new -> "unchanged"
    [] old = 0 /\ new # 0 -> "added"
    [] old # 0 /\ new = 0 -> "removed"
    [] OTHER -> "changed"

(* unpack refuses an archive that ends within a file; one that ends between *)
(* two files is read as complete.                                           *)
Report ==
  /\ at = "current" /\ at' = "idle"
  /\ LET files == [f \in Files |-> Difference(content[f], capture.got[f])] IN
       \/ capture.clean /\ report' = files /\ row' = "completed" /\ UNCHANGED faults
       \/ capture.clean /\ Fault /\ report' \in {report, files} /\ row' = "failed"
       \/ /\ ~capture.clean \/ overtaken # {}
          /\ row' = "failed" /\ UNCHANGED <<report, faults>>
  /\ UNCHANGED <<real, changes, capture, artifact, content, metadata, manifest, result, then, now,
                 overtaken>>

(* SERVER stops: the rows of the jobs under way are never finished.         *)
Crash ==
  /\ at # "idle" /\ Fault /\ at' = "idle"
  /\ UNCHANGED <<real, changes, capture, artifact, content, metadata, manifest, result,
                 report, row, then, now, overtaken>>

Next ==
  \/ \E f \in Files : Change(f) \/ Test(f) \/ Read(f)
  \/ Backup \/ Captured \/ Store \/ Describe \/ Note \/ Commands
  \/ Compare \/ Current \/ Report \/ Crash

Spec == Init /\ [][Next]_vars

-------------------------------------------------------------------------------
(* Properties *)

(* What a capture that is called complete may show of a file: a version it  *)
(* had meanwhile; nothing too, if the exit status overtook output.          *)
Shown(job, versions) == versions \cup (IF job \in overtaken THEN {0} ELSE {})

(* A capture called complete holds, for every file, a version the file had  *)
(* while it was taken: none is missing that was there all the time, unless  *)
(* the exit status overtook it (remote.py:59; nothing in the manifest tells *)
(* of it).  So it is for the manifest on disk at any moment, also after a   *)
(* crash.                                                                   *)
CompleteIsWhole ==
  manifest # None /\ manifest.artifact = "completed" =>
    content # None /\ \A f \in Files : content[f] \in Shown("backup", then[f])

(* A comparison that completed says of every file what is true of a version *)
(* it had during the backup and one it had during the comparison: a capture *)
(* with an error or a lost connection never reads as files removed          *)
(* ("Current configuration capture incomplete; comparison refused",         *)
(* backup/compare.py:90).  One whose exit status overtook output does: then *)
(* "removed", or "added" after such a backup, may be wrong of a file.       *)
DifferencesAreReal ==
  row = "completed" =>
    \A f \in Files :
      \E old \in Shown("backup", then[f]), new \in Shown("compare", now[f]) :
        report[f] = Difference(old, new)

BackupsHold == CompleteIsWhole /\ DifferencesAreReal
===============================================================================

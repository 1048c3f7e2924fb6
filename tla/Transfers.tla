------------------------------- MODULE Transfers -------------------------------
(* A file that the file browser of the desktop client transfers             *)
(* (desktop/transfers.py, desktop/file_browser.py) to or from SERVER        *)
(* (gui_transfer of server/files.py).  Chunks go to a pending file with a   *)
(* name of its own, which a record on the disk of the GUI remembers; a      *)
(* verified pending file is linked to its target.  A transfer can be        *)
(* paused, cancelled, resumed and discarded; requests and answers of an     *)
(* upload can be lost or come late, the GUI and its disk can fail.          *)
EXTENDS Naturals, Sequences

CONSTANTS
  Chunks,        \* chunks of the file
  Names,         \* names of pending files (a uuid each)
  MaxChanges,    \* bound: changes of the source
  MaxFaults,     \* bound: lost or late requests, failing writes of the GUI
  MaxCrashes,    \* bound: stops of the GUI
  None

VARIABLES
  side,          \* "upload" or "download"
  source,        \* version of the source file
  target,        \* None, or the versions of the chunks of the file there
  pending,       \* of each name: None or the versions of the chunks written
  mem, disk,     \* the state of Transfers in memory and saved
  at,            \* where Transfers.run is
  sig,           \* the signature of the source that this run took
  late,          \* requests that SERVER has yet to handle
  told,          \* what the status line says
  used,          \* names given out
  excused,       \* ghost: names whose record was not saved or that come late
  byLate,        \* ghost: the target was made by a commit that came late
  faults, crashes

vars == <<side, source, target, pending, mem, disk, at, sig, late, told, used, excused, byLate,
          faults, crashes>>

Record == [name : Names, sig : 0..MaxChanges]
State == [job : BOOLEAN, rec : Record \cup {None}]
Content == UNION {[1..n -> 0..MaxChanges] : n \in 0..Chunks}
Requests == [op : {"upload"}, name : Names, offset : 0..Chunks, chunk : 0..MaxChanges]
            \cup [op : {"commit", "abort"}, name : Names]
Whole(version) == [i \in 1..Chunks |-> version]
Foreign == Whole(MaxChanges + 1)   \* a file that others made

TypeOK ==
  /\ side \in {"upload", "download"} /\ source \in 0..MaxChanges
  /\ target \in {None, Foreign} \cup Content /\ pending \in [Names -> Content \cup {None}]
  /\ mem \in State /\ disk \in State
  /\ at \in {"idle", "sign", "look", "record", "prefix", "copy", "save", "verify", "commit",
             "finish", "end", "remove", "forget"}
  /\ sig \in 0..MaxChanges /\ late \subseteq Requests
  /\ told \in {"none", "success", "paused", "incomplete", "discarded"}
  /\ used \subseteq Names /\ excused \subseteq Names /\ byLate \in BOOLEAN
  /\ faults \in 0..MaxFaults /\ crashes \in 0..MaxCrashes

(* Assumption: what the constants may be.                                   *)
SettingOK ==
  /\ Chunks \in Nat \ {0} /\ MaxChanges \in Nat /\ MaxFaults \in Nat /\ MaxCrashes \in Nat
  /\ None \notin Record /\ None \notin Content /\ None # Foreign

Init ==
  /\ side \in {"upload", "download"} /\ source = 0 /\ target = None
  /\ pending = [n \in Names |-> None]
  /\ mem = [job |-> FALSE, rec |-> None] /\ disk = mem
  /\ at = "idle" /\ sig = 0 /\ late = {} /\ told = "none"
  /\ used = {} /\ excused = {} /\ byLate = FALSE /\ faults = 0 /\ crashes = 0

setting == <<side, source>>
files == <<target, pending>>
state == <<mem, disk>>
marks == <<used, excused, byLate>>
bounds == <<faults, crashes>>

-------------------------------------------------------------------------------
Fault == faults < MaxFaults /\ faults' = faults + 1
Raise == at' = "idle" /\ told' = "incomplete"

(* save: the state in memory is on disk, or an exception ends the run.      *)
Save(st, place) ==
  /\ mem' = st
  /\ \/ disk' = st /\ at' = place /\ UNCHANGED <<told, excused, faults>>
     \/ /\ Fault /\ Raise /\ UNCHANGED disk
        /\ excused' = excused \cup (IF st.rec = None THEN {} ELSE {st.rec.name})

(* What gui_transfer does with a request of an upload; downloads do the     *)
(* same to local files.  A failing one changes nothing.                     *)
Accepts(r) ==
  CASE r.op = "upload" -> IF r.offset = 0 THEN pending[r.name] = None
                          ELSE pending[r.name] # None /\ Len(pending[r.name]) = r.offset
    [] r.op = "commit" -> target = None /\ pending[r.name] # None /\ Len(pending[r.name]) = Chunks
    [] r.op = "abort" -> TRUE

Perform(r) ==
  IF ~Accepts(r) THEN UNCHANGED files
  ELSE CASE r.op = "upload" ->
              /\ pending' = [pending EXCEPT ![r.name] =
                   IF r.offset = 0 THEN <<r.chunk>> ELSE Append(@, r.chunk)]
              /\ UNCHANGED target
         [] r.op = "commit" ->
              /\ target' = pending[r.name]
              /\ pending' = [pending EXCEPT ![r.name] = None]
         [] r.op = "abort" -> pending' = [pending EXCEPT ![r.name] = None] /\ UNCHANGED target

(* One request of an upload: it succeeds or raises; its answer is lost; it  *)
(* is lost; it comes late.  commit may stop between link and unlink.        *)
Call(r, place) ==
  \/ /\ Perform(r)
     /\ IF Accepts(r) THEN at' = place /\ UNCHANGED told ELSE Raise
     /\ UNCHANGED <<late, excused, faults>>
  \/ Fault /\ Raise /\ UNCHANGED <<late, excused>> /\ Perform(r)
  \/ Fault /\ Raise /\ UNCHANGED <<late, excused, files>>
  \/ Fault /\ Raise /\ side = "upload"
     /\ late' = late \cup {r} /\ excused' = excused \cup {r.name}
     /\ UNCHANGED files
  \/ Fault /\ Raise /\ r.op = "commit" /\ Accepts(r)
     /\ target' = pending[r.name] /\ UNCHANGED <<pending, late, excused>>

(* A late request is handled after the GUI gave it up.                      *)
Late ==
  \E r \in late :
    /\ late' = late \ {r} /\ Perform(r)
    /\ byLate' = (byLate \/ target' # target)
    /\ UNCHANGED <<setting, state, at, sig, told, used, excused, bounds>>

-------------------------------------------------------------------------------
(* run: a new transfer is refused while one is paused; Resume needs one.    *)
Start ==
  /\ at = "idle" /\ ~mem.job
  /\ Save([mem EXCEPT !.job = TRUE], "sign")
  /\ UNCHANGED <<setting, files, sig, late, used, crashes, byLate>>

Resume ==
  /\ at = "idle" /\ mem.job
  /\ at' = "sign"
  /\ UNCHANGED <<setting, files, state, sig, late, told, marks, bounds>>

(* stop is looked at between the chunks.                                    *)
Stop ==
  /\ at \in {"sign", "copy", "verify"}
  /\ \/ at' = "idle" /\ told' = "paused"
     \/ at' = "remove" /\ UNCHANGED told
  /\ UNCHANGED <<setting, files, state, sig, late, marks, bounds>>

Sign ==
  /\ at = "sign" /\ sig' = source
  /\ IF mem.rec # None /\ mem.rec.sig # source THEN Raise ELSE at' = "look" /\ UNCHANGED told
  /\ UNCHANGED <<setting, files, state, late, marks, bounds>>

(* A target that is there: the file itself, by an attempt whose answer was  *)
(* lost, or a different one.                                                *)
Look ==
  /\ at = "look"
  /\ IF target = None THEN at' = "record" /\ UNCHANGED told
     ELSE IF target = Whole(sig)
     THEN at' = (IF mem.rec = None THEN "end" ELSE "forget") /\ UNCHANGED told
     ELSE Raise
  /\ UNCHANGED <<setting, files, state, sig, late, marks, bounds>>

(* The name of the pending file is saved before the file is made.           *)
MutantNote ==
  /\ at = "record"
  /\ IF mem.rec # None THEN at' = "prefix" /\ UNCHANGED <<state, told, used,
                                                          excused, faults>>
     ELSE \E n \in Names \ used :
       /\ used' = used \cup {n}
       /\ mem' = [mem EXCEPT !.rec = [name |-> n, sig |-> sig]] /\ at' = "prefix"
       /\ UNCHANGED <<disk, told, excused, faults>>
  /\ UNCHANGED <<setting, files, sig, late, crashes, byLate>>

Note ==
  /\ at = "record"
  /\ IF mem.rec # None THEN at' = "prefix" /\ UNCHANGED <<state, told, used,
                                                          excused, faults>>
     ELSE \E n \in Names \ used :
       /\ used' = used \cup {n}
       /\ Save([mem EXCEPT !.rec = [name |-> n, sig |-> sig]], "prefix")
  /\ UNCHANGED <<setting, files, sig, late, crashes, byLate>>

Written == IF pending[mem.rec.name] = None THEN <<>> ELSE pending[mem.rec.name]

(* What is already there must be the beginning of the source.               *)
Prefix ==
  /\ at = "prefix"
  /\ IF \A i \in DOMAIN Written : Written[i] = source THEN at' = "copy" /\ UNCHANGED told
     ELSE Raise
  /\ UNCHANGED <<setting, files, state, sig, late, marks, bounds>>

Copy ==
  /\ at = "copy"
  /\ IF Len(Written) = Chunks
     THEN at' = "verify" /\ UNCHANGED <<told, files, late, excused, faults>>
     ELSE Call([op |-> "upload", name |-> mem.rec.name, offset |-> Len(Written),
                chunk |-> source], "save")
  /\ UNCHANGED <<setting, state, sig, used, crashes, byLate>>

SaveOffset ==
  /\ at = "save"
  /\ Save(mem, "copy")
  /\ UNCHANGED <<setting, files, sig, late, used, crashes, byLate>>

(* The whole pending file must have the signature.                          *)
MutantVerify ==
  /\ at = "verify"
  /\ at' = "commit" /\ UNCHANGED told
  /\ UNCHANGED <<setting, files, state, sig, late, marks, bounds>>

Verify ==
  /\ at = "verify"
  /\ IF Written = Whole(mem.rec.sig) THEN at' = "commit" /\ UNCHANGED told ELSE Raise
  /\ UNCHANGED <<setting, files, state, sig, late, marks, bounds>>

MutantCommit ==
  /\ at = "commit" /\ target' = pending[mem.rec.name]
  /\ pending' = [pending EXCEPT ![mem.rec.name] = None] /\ at' = "finish"
  /\ UNCHANGED <<setting, state, sig, late, told, marks, bounds>>

Commit ==
  /\ at = "commit"
  /\ Call([op |-> "commit", name |-> mem.rec.name], "finish")
  /\ UNCHANGED <<setting, state, sig, used, crashes, byLate>>

Finish ==
  /\ at = "finish"
  /\ Save([mem EXCEPT !.rec = None], "end")
  /\ UNCHANGED <<setting, files, sig, late, used, crashes, byLate>>

(* The end of run; its own save may fail too.                               *)
End ==
  /\ at = "end"
  /\ mem' = [mem EXCEPT !.job = FALSE] /\ at' = "idle"
  /\ \/ disk' = mem' /\ told' = "success" /\ UNCHANGED faults
     \/ Fault /\ told' = "incomplete" /\ UNCHANGED disk
  /\ UNCHANGED <<setting, files, sig, late, marks, crashes>>

(* remove_record: the pending file first, then its record; "remove" is part *)
(* of discard, which drops the job as well.                                 *)
Discard ==
  /\ at = "idle" /\ at' = "remove"
  /\ UNCHANGED <<setting, files, state, sig, late, told, marks, bounds>>

MutantRemove ==
  /\ at \in {"remove", "forget"}
  /\ mem' = [job |-> at = "forget", rec |-> None] /\ disk' = mem' /\ at' = "idle"
  /\ told' = "discarded"
  /\ UNCHANGED <<setting, sig, files, late, bounds, marks>>

Remove ==
  /\ at \in {"remove", "forget"}
  /\ IF mem.rec # None /\ pending[mem.rec.name] # None
     THEN /\ Call([op |-> "abort", name |-> mem.rec.name], at)
          /\ UNCHANGED state
     ELSE /\ mem' = [job |-> at = "forget", rec |-> None]
          /\ \/ disk' = mem' /\ UNCHANGED faults
                /\ at' = (IF at = "forget" THEN "end" ELSE "idle")
                /\ told' = (IF at = "forget" THEN told ELSE "discarded")
             \/ Fault /\ Raise /\ UNCHANGED disk
          /\ UNCHANGED <<late, files, excused>>
  /\ UNCHANGED <<setting, sig, used, crashes, byLate>>

-------------------------------------------------------------------------------
(* The GUI stops; what it saved is read at the next start.                  *)
Crash ==
  /\ crashes < MaxCrashes /\ crashes' = crashes + 1
  /\ mem' = disk /\ at' = "idle" /\ told' = "none"
  /\ UNCHANGED <<setting, files, disk, sig, late, marks, faults>>

(* Others change the source or make a file with the name of the target.     *)
Change ==
  /\ source < MaxChanges /\ source' = source + 1
  /\ UNCHANGED <<side, files, state, at, sig, late, told, marks, bounds>>

Other ==
  /\ target = None /\ target' = Foreign
  /\ UNCHANGED <<setting, pending, state, at, sig, late, told, marks, bounds>>

Next ==
  \/ Start \/ Resume \/ Stop \/ Sign \/ Look \/ Note \/ Prefix \/ Copy \/ SaveOffset
  \/ Verify \/ Commit \/ Finish \/ End \/ Discard \/ Remove \/ Late \/ Crash \/ Change \/ Other

Spec == Init /\ [][Next]_vars

-------------------------------------------------------------------------------
(* Properties *)

(* Success means that the target is one version of the source as a whole,   *)
(* over changes of the source, restarts and late requests; and whatever is  *)
(* published has all of its chunks.  "Only verified complete files are      *)
(* published" (desktop/transfers.py:1) is more than the code keeps: SERVER  *)
(* compares only the size (server/files.py:110), so a commit that it        *)
(* handles after the client gave it up publishes what is then in the        *)
(* pending file, which may be a mixture of versions; that case is named.    *)
PublishedWhole ==
  /\ told = "success" => \E v \in 0..MaxChanges : target = Whole(v)
  /\ target \notin {None, Foreign} => Len(target) = Chunks
  /\ target \notin {None, Foreign} => byLate \/ \E v \in 0..MaxChanges : target = Whole(v)

(* "Atomic publish, never replace existing files" (server/files.py:112).    *)
TargetStays == target # None => target' = target
NothingReplaced == [][TargetStays]_target

(* A pending file has a record on the disk of the GUI, so that a restart    *)
(* can resume or remove it; only a record that could not be saved, or a     *)
(* request that came late, can leave one without.                           *)
NoOrphans ==
  \A n \in Names \ excused : pending[n] # None => disk.rec # None /\ disk.rec.name = n

(* Transfers: success means that one version of the source is there as a    *)
(* whole; what is published is never short, is such a version unless a late *)
(* commit published it, and is not replaced; and every pending file has a   *)
(* record to resume it from, unless its record could not be saved or a      *)
(* request for it came late.                                                *)
TransfersHold == [][TargetStays /\ PublishedWhole' /\ NoOrphans']_vars
===============================================================================

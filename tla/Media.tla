--------------------------------- MODULE Media ---------------------------------
(* ISO images as a source of patches (server/media.py, desktop/main.py): a  *)
(* console mounts an image that lies on SERVER, searches it for packages    *)
(* and chooses some for a patch plan, while the file is replaced, others    *)
(* unmount it and SERVER is restarted.  Calls hold LOCK, so that only the   *)
(* file system moves between the steps of one.                              *)
EXTENDS Naturals, FiniteSets

CONSTANTS
  Consoles,
  Images,          \* files that may lie at the path; one that is mounted is not written to
  MaxChanges,      \* bound: replacements of the file and restarts
  MaxFaults,       \* bound: mounts, unmounts and removals that fail
  None

VARIABLES
  file,            \* the image at the path
  mounts,          \* images mounted at the directory of an identity, on top of each other
  call,            \* the call that holds LOCK: its console and the image it has open
  dialog,          \* console: identity of the image its search dialog is about
  listed,          \* console: image whose packages the dialog shows
  chosen,          \* console: packages in the field of the patch plan
  read,            \* ghost: packages chosen, and those that a plan found in their place
  changes, faults

vars == <<file, mounts, call, dialog, listed, chosen, read, changes, faults>>

(* A package is named by the directory it was listed in.                    *)
Package == [id : Images, image : Images]

TypeOK ==
  /\ file \in Images /\ mounts \in [Images -> SUBSET Images]
  /\ call \in {None} \cup [console : Consoles, image : Images]
  /\ dialog \in [Consoles -> Images \cup {None}] /\ listed \in [Consoles -> Images \cup {None}]
  /\ chosen \in [Consoles -> Package \cup {None}] /\ read \subseteq Images \X Images
  /\ changes \in 0..MaxChanges /\ faults \in 0..MaxFaults

(* Assumption: what the constants may be.                                   *)
SettingOK ==
  /\ MaxChanges \in Nat /\ MaxFaults \in Nat
  /\ None \notin Images /\ None \notin Package
  /\ None \notin [console : Consoles, image : Images]

Init ==
  /\ file \in Images /\ mounts = [i \in Images |-> {}] /\ call = None
  /\ dialog = [c \in Consoles |-> None] /\ listed = dialog /\ chosen = dialog
  /\ read = {} /\ changes = 0 /\ faults = 0

Fault == faults < MaxFaults /\ faults' = faults + 1
IsMount(id) == mounts[id] # {}

-------------------------------------------------------------------------------
Replace ==
  /\ changes < MaxChanges /\ changes' = changes + 1
  /\ \E i \in Images \ {file} : file' = i
  /\ UNCHANGED <<mounts, call, dialog, listed, chosen, read, faults>>

(* Mounts do not survive a restart of the machine.                          *)
Reboot ==
  /\ changes < MaxChanges /\ changes' = changes + 1
  /\ mounts' = [i \in Images |-> {}] /\ call' = None
  /\ UNCHANGED <<file, dialog, listed, chosen, read, faults>>

-------------------------------------------------------------------------------
(* media.mount: the file is opened once; its device, inode, size and time   *)
(* are its identity, and what is mounted is the open file, whatever lies at *)
(* the path meanwhile.                                                      *)
Open(c) ==
  /\ call = None /\ dialog[c] = None
  /\ call' = [console |-> c, image |-> file]
  /\ UNCHANGED <<file, mounts, dialog, listed, chosen, read, changes, faults>>

MutantMounted(i) == file
Mounted(i) == i

Mount ==
  /\ call # None /\ call' = None
  /\ LET id == call.image
         after == [mounts EXCEPT ![id] = @ \cup {Mounted(id)}] IN
       \/ /\ mounts' = IF IsMount(id) THEN mounts ELSE after
          /\ dialog' = [dialog EXCEPT ![call.console] = id] /\ UNCHANGED faults
       \/ ~IsMount(id) /\ Fault /\ mounts' \in {mounts, after} /\ UNCHANGED dialog
  /\ UNCHANGED <<file, listed, chosen, read, changes>>

(* media.unmount, from the dialog: it closes when that is done.  A failure  *)
(* may come after it, when the empty directory cannot be removed.           *)
Unmount(c) ==
  /\ call = None /\ dialog[c] # None /\ IsMount(dialog[c])
  /\ LET id == dialog[c] IN
       \/ /\ mounts' = [mounts EXCEPT ![id] = {}]
          /\ dialog' = [dialog EXCEPT ![c] = None] /\ listed' = [listed EXCEPT ![c] = None]
          /\ UNCHANGED faults
       \/ /\ Fault /\ mounts' \in {mounts, [mounts EXCEPT ![id] = {}]}
          /\ UNCHANGED <<dialog, listed>>
  /\ UNCHANGED <<file, call, chosen, read, changes>>

(* media.packages: an error if nothing is mounted there.                    *)
Packages(c) ==
  /\ call = None /\ dialog[c] # None /\ IsMount(dialog[c])
  /\ \E image \in mounts[dialog[c]] : listed' = [listed EXCEPT ![c] = image]
  /\ UNCHANGED <<file, mounts, call, dialog, chosen, read, changes, faults>>

-------------------------------------------------------------------------------
(* The dialog: packages are taken over, or it is closed; either way the     *)
(* image stays mounted for the plan.                                        *)
Select(c) ==
  /\ dialog[c] # None /\ listed[c] # None
  /\ chosen' = [chosen EXCEPT ![c] = [id |-> dialog[c], image |-> listed[c]]]
  /\ dialog' = [dialog EXCEPT ![c] = None] /\ listed' = [listed EXCEPT ![c] = None]
  /\ UNCHANGED <<file, mounts, call, read, changes, faults>>

Close(c) ==
  /\ dialog[c] # None
  /\ dialog' = [dialog EXCEPT ![c] = None] /\ listed' = [listed EXCEPT ![c] = None]
  /\ UNCHANGED <<file, mounts, call, chosen, read, changes, faults>>

(* A plan reads the packages at the paths that were chosen.                 *)
Plan(c) ==
  /\ chosen[c] # None /\ IsMount(chosen[c].id)
  /\ \E image \in mounts[chosen[c].id] : read' = read \cup {<<chosen[c].image, image>>}
  /\ UNCHANGED <<file, mounts, call, dialog, listed, chosen, changes, faults>>

Next ==
  \/ Replace \/ Reboot \/ Mount
  \/ \E c \in Consoles : Open(c) \/ Unmount(c) \/ Packages(c) \/ Select(c) \/ Close(c) \/ Plan(c)

Spec == Init /\ [][Next]_vars

-------------------------------------------------------------------------------
(* Properties *)

(* A plan reads the packages of the image that was searched, though the     *)
(* file at its path was replaced, and the image unmounted and mounted again *)
(* by another console or after a restart (docs/patch-files-iso.md:28).      *)
PackagesAreTheChosen == \A pair \in read : pair[1] = pair[2]
===============================================================================

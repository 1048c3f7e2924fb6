-------------------------------- MODULE Patches --------------------------------
(* A reviewed patch plan of one host and its application (patch/manager.py, *)
(* patch/rpm_plan.py, patch/local_files.py).  "apt" asks the package manager *)
(* to simulate and later to install pinned versions; "dnf" resolves and     *)
(* installs from the cache of the host in one script; "files" sends package *)
(* files of SERVER to an upload directory of the login account, copies them *)
(* to a directory of root and installs these copies.                        *)
EXTENDS Naturals, Functions

CONSTANTS
  Files,         \* the package files of the plan
  MaxEdits,      \* bound: changes of the host's packages by others
  MaxSwaps,      \* bound: replaced package files, at SERVER, in the cache or the upload
  MaxFaults,     \* bound: timeouts and lost connections
  None

VARIABLES
  how, phase, at,
  packages,      \* state of the installed packages
  source,        \* the bytes of each file at SERVER ("files") or in the cache ("dnf")
  upload, root,  \* the staged copies; None: there is no directory
  unread,        \* ghost: a directory that was made, and its name was not read
  sent,          \* the hash of each file sent so far
  plan,          \* what the administrator reviewed
  running,       \* an installation runs on the host
  installed,     \* what was installed, and on which packages
  told,          \* what SERVER reports of the apply
  raced,         \* ghost: changes between the last look and the installation
  edits, swaps, faults

vars == <<how, phase, at, packages, source, upload, root, unread, sent, plan, running, installed,
          told, raced, edits, swaps, faults>>

Places == {"idle", "upload", "root", "send", "copy", "resolve", "install", "wait", "clean",
           "unstage"}
Bytes == [Files -> 0..MaxSwaps]
Empty == [f \in Files |-> None]
Staged == [Files -> 0..MaxSwaps \cup {None}] \cup {None}
Reviewed == [packages : 0..MaxEdits, bytes : Bytes]

TypeOK ==
  /\ how \in {"apt", "dnf", "files"} /\ phase \in {"plan", "review", "apply", "over"}
  /\ at \in Places
  /\ packages \in 0..MaxEdits /\ source \in Bytes /\ upload \in Staged /\ root \in Staged
  /\ unread \in {"none", "upload", "root"}
  /\ sent \in [Files -> 0..MaxSwaps \cup {None}] /\ plan \in Reviewed \cup {None}
  /\ running \in BOOLEAN /\ installed \in Reviewed \cup {None}
  /\ told \in {"none", "completed", "failed"} /\ raced \in BOOLEAN
  /\ edits \in 0..MaxEdits /\ swaps \in 0..MaxSwaps /\ faults \in 0..MaxFaults

(* Assumption: what the constants may be.                                   *)
SettingOK ==
  /\ None \notin 0..MaxSwaps /\ None \notin [Files -> 0..MaxSwaps \cup {None}]
  /\ None \notin Reviewed
  /\ MaxEdits \in Nat /\ MaxSwaps \in Nat /\ MaxFaults \in Nat

Init ==
  /\ how \in {"apt", "dnf", "files"} /\ phase = "plan" /\ at = "idle"
  /\ packages = 0 /\ source = [f \in Files |-> 0] /\ upload = None /\ root = None
  /\ unread = "none" /\ sent = Empty /\ plan = None /\ running = FALSE /\ installed = None
  /\ told = "none" /\ raced = FALSE
  /\ edits = 0 /\ swaps = 0 /\ faults = 0

host == <<packages, running, installed, raced>>
bounds == <<edits, swaps, faults>>

-------------------------------------------------------------------------------
Fault == faults < MaxFaults /\ faults' = faults + 1

(* One of the two jobs, plan and apply, begins.                             *)
Begin ==
  /\ phase \in {"plan", "apply"} /\ at = "idle"
  /\ at' = IF how = "files" THEN "upload" ELSE "resolve"
  /\ sent' = Empty
  /\ UNCHANGED <<how, phase, host, source, upload, root, unread, plan, told, bounds>>

(* The end of a job: its result is stored, or it failed.  A plan that       *)
(* failed is not reviewed.                                                  *)
Done(result) ==
  /\ at' = "idle"
  /\ phase' = CASE phase = "apply" -> "over"
                [] phase = "plan" /\ result = "completed" -> "review"
                [] OTHER -> "over"
  /\ told' = IF phase = "apply" THEN result ELSE told

(* An exception: with staged files the "finally" removes them first.        *)
Raise ==
  IF how = "files" THEN at' = "clean" /\ told' = "failed" /\ phase' = phase ELSE Done("failed")

(* The administrator confirms the plan.                                     *)
Review ==
  /\ phase = "review" /\ phase' = "apply"
  /\ told' = "none"
  /\ UNCHANGED <<how, at, host, source, upload, root, unread, sent, plan, bounds>>

-------------------------------------------------------------------------------
(* staged: two directories, then each file is sent, hashed and copied.  The *)
(* host makes a directory and prints its name, in one piece: SERVER reads   *)
(* all of the name or, when the exit status overtakes it, nothing.  What it *)
(* cannot name it does not remove.  The upload directory is made before the *)
(* "try": without it there is nothing to remove yet.                        *)
MakeUpload ==
  /\ at = "upload"
  /\ \/ upload' = Empty /\ at' = "root" /\ UNCHANGED <<unread, phase, told>>
     \/ Done("failed") /\ unread' \in {unread, "upload"} /\ UNCHANGED upload
  /\ UNCHANGED <<how, host, source, root, sent, plan, bounds>>

(* mktemp and mkdir, as root: each may be refused.                          *)
MakeRoot ==
  /\ at = "root"
  /\ \/ root' = Empty /\ at' = "send" /\ UNCHANGED <<unread, phase, told>>
     \/ Raise /\ root' \in {None, Empty} /\ UNCHANGED unread
     \/ Raise /\ unread' = "root" /\ UNCHANGED root
  /\ UNCHANGED <<how, host, source, upload, sent, plan, bounds>>

(* A file of SERVER is read once: what is sent is what is hashed.  In an    *)
(* apply the hash must be the reviewed one.  A file that cannot be opened   *)
(* ends the job.                                                            *)
MutantSend ==
  /\ at = "send"
  /\ \/ None \notin Range(sent) /\ at' = "resolve" /\ UNCHANGED <<upload, phase, told, sent>>
     \/ Raise /\ UNCHANGED <<upload, sent>>
     \/ \E f \in Files :
       /\ sent[f] = None
       /\ upload' = [upload EXCEPT ![f] = source[f]]
       /\ at' = "copy" /\ sent' = [sent EXCEPT ![f] = source[f]] /\ UNCHANGED <<phase, told>>
  /\ UNCHANGED <<how, host, source, root, unread, plan, bounds>>

Send ==
  /\ at = "send"
  /\ \/ None \notin Range(sent) /\ at' = "resolve" /\ UNCHANGED <<upload, phase, told, sent>>
     \/ Raise /\ UNCHANGED <<upload, sent>>
     \/ \E f \in Files :
       /\ sent[f] = None
       /\ upload' = [upload EXCEPT ![f] = source[f]]
       /\ IF phase = "apply" /\ source[f] # plan.bytes[f]
          THEN Raise /\ UNCHANGED sent
          ELSE at' = "copy" /\ sent' = [sent EXCEPT ![f] = source[f]] /\ UNCHANGED <<phase, told>>
  /\ UNCHANGED <<how, host, source, root, unread, plan, bounds>>

(* cp and sha256sum -c, as root: the copy must have the hash of what was    *)
(* sent.  Each may be refused.                                              *)
MutantCopy(f) ==
  /\ at = "copy" /\ sent[f] # None /\ root[f] = None
  /\ root' = [root EXCEPT ![f] = upload[f]]
  /\ \/ at' = "send" /\ UNCHANGED <<phase, told>>
     \/ Raise
  /\ UNCHANGED <<how, host, source, upload, unread, sent, plan, bounds>>

Copy(f) ==
  /\ at = "copy" /\ sent[f] # None /\ root[f] = None
  /\ root' = [root EXCEPT ![f] = upload[f]]
  /\ \/ upload[f] = sent[f] /\ at' = "send" /\ UNCHANGED <<phase, told>>
     \/ Raise
  /\ UNCHANGED <<how, host, source, upload, unread, sent, plan, bounds>>

-------------------------------------------------------------------------------
(* The look at packages and dependencies.  A plan records it; an apply      *)
(* compares it with the plan before anything is installed: the packages,    *)
(* and for dnf the checksums of the cached files.                           *)
Look == [packages |-> packages,
         bytes |-> CASE how = "files" -> root [] how = "dnf" -> source
                     [] OTHER -> [f \in Files |-> 0]]

Unchanged == packages = plan.packages /\ (how = "dnf" => source = plan.bytes)

MutantResolve ==
  /\ at = "resolve"
  /\ \/ Raise /\ UNCHANGED <<plan, raced>>
     \/ /\ phase = "plan" /\ plan' = Look /\ UNCHANGED raced
        /\ IF how = "files" THEN at' = "clean" /\ told' = "completed" /\ phase' = phase
           ELSE Done("completed")
     \/ /\ phase = "apply" /\ at' = "install" /\ raced' = FALSE
        /\ UNCHANGED <<plan, phase, told>>
  /\ UNCHANGED <<how, packages, running, installed, source, upload, root, unread, sent, bounds>>

Resolve ==
  /\ at = "resolve"
  /\ \/ Raise /\ UNCHANGED <<plan, raced>>
     \/ /\ phase = "plan" /\ plan' = Look /\ UNCHANGED raced
        /\ IF how = "files" THEN at' = "clean" /\ told' = "completed" /\ phase' = phase
           ELSE Done("completed")
     \/ /\ phase = "apply" /\ Unchanged /\ at' = "install" /\ raced' = FALSE
        /\ UNCHANGED <<plan, phase, told>>
  /\ UNCHANGED <<how, packages, running, installed, source, upload, root, unread, sent, bounds>>

Install ==
  /\ at = "install"
  /\ running' = TRUE /\ at' = "wait"
  /\ UNCHANGED <<how, phase, packages, installed, raced, source, upload, root, unread, sent, plan,
                 told, bounds>>

(* The package manager ends.  It works on what is there: nothing, when the  *)
(* staged files are gone.  A failure may leave packages installed.          *)
InstallEnds ==
  /\ running /\ running' = FALSE
  /\ \/ /\ how = "files" => root # None
        /\ installed' = Look
     \/ UNCHANGED installed
  /\ \/ at = "wait" /\ installed' # None
        /\ IF how = "files" THEN at' = "clean" /\ told' = "completed" /\ phase' = phase
           ELSE Done("completed")
     \/ at = "wait" /\ Raise
     \/ at # "wait" /\ UNCHANGED <<at, phase, told>>
  /\ UNCHANGED <<how, packages, raced, source, upload, root, unread, sent, plan, bounds>>

(* 180 or 900 seconds pass: the job goes on, the command may do so too.     *)
(* The script of a dnf apply looks and installs in one: it is given up      *)
(* while it waits for the package manager, or not at all.                   *)
OneScript == how = "dnf" /\ phase = "apply" /\ at \in {"resolve", "install"}
TimeOut ==
  /\ at \in {"resolve", "wait"} /\ ~OneScript /\ Fault
  /\ Raise
  /\ UNCHANGED <<how, host, source, upload, root, unread, sent, plan, edits, swaps>>

-------------------------------------------------------------------------------
(* The "finally" of staged: first the directory of root, then the upload.   *)
MutantClean ==
  /\ at = "clean" /\ Done(told)
  /\ root' = None
  /\ UNCHANGED <<how, host, source, upload, unread, sent, plan, bounds>>

Clean ==
  /\ at = "clean" /\ at' = "unstage"
  /\ root' = None
  /\ UNCHANGED <<how, phase, host, source, upload, unread, sent, plan, told, bounds>>

Unstage ==
  /\ at = "unstage" /\ Done(told)
  /\ upload' = None
  /\ UNCHANGED <<how, host, source, root, unread, sent, plan, bounds>>

(* The connection is lost: whatever comes next raises too.  Or a removal is *)
(* refused: what follows it is not done.                                    *)
Disconnect ==
  /\ at # "idle" /\ ~OneScript /\ Fault
  /\ Done("failed")
  /\ UNCHANGED <<how, host, source, upload, root, unread, sent, plan, edits, swaps>>

(* Others on the host install packages, or replace a file at SERVER, in the *)
(* cache or in the upload directory.                                        *)
Edit ==
  /\ edits < MaxEdits /\ edits' = edits + 1
  /\ packages' = edits + 1 /\ raced' = (raced \/ at = "install" \/ running)
  /\ UNCHANGED <<how, phase, at, running, installed, source, upload, root, unread, sent, plan,
                 told, swaps, faults>>

Swap(f) ==
  /\ how # "apt" /\ swaps < MaxSwaps /\ swaps' = swaps + 1
  /\ \/ source' = [source EXCEPT ![f] = swaps + 1] /\ UNCHANGED upload
        /\ raced' = (raced \/ (how = "dnf" /\ (at = "install" \/ running)))
     \/ upload # None /\ upload[f] # None
        /\ upload' = [upload EXCEPT ![f] = swaps + 1] /\ UNCHANGED <<source, raced>>
  /\ UNCHANGED <<how, phase, at, packages, running, installed, root, unread, sent, plan, told,
                 edits, faults>>

Next ==
  \/ Begin \/ Review \/ MakeUpload \/ MakeRoot \/ Send
  \/ \E f \in Files : Copy(f) \/ Swap(f)
  \/ Resolve \/ Install \/ InstallEnds \/ TimeOut \/ Clean \/ Unstage \/ Disconnect \/ Edit

Spec == Init /\ [][Next]_vars

-------------------------------------------------------------------------------
(* Properties *)

(* What is installed was reviewed: the same files on the same packages,     *)
(* over changes at SERVER, in the cache and on the host; only a change      *)
(* between the last look and the package manager's end can come in between, *)
(* and never one of staged files ("Package state changed since planning;    *)
(* create a fresh plan", patch/manager.py:131; local_files.py:84-130).      *)
AppliedIsReviewed ==
  installed # None =>
    /\ ~raced => installed = plan
    /\ how = "files" => installed.bytes = plan.bytes

(* A directory that SERVER could name is gone when the job is over, unless  *)
(* the connection that would have removed it was lost or the host refused   *)
(* to (local_files.py:65-68).  One whose name it did not read stays, one in *)
(* the life of a plan and empty, and its job fails: nothing is installed    *)
(* and no later job is told that it completed (local_files.py:34-36,40-42). *)
NoStagingLeft ==
  /\ at = "idle" /\ faults = 0 => upload = None /\ root = None
  /\ unread # "none" => installed = None /\ told # "completed" /\ phase # "review"

(* Patches: what is installed is what the administrator reviewed, on the    *)
(* packages he reviewed it for, and nothing stays in the staging            *)
(* directories: only one that SERVER could not name may stay, empty, and    *)
(* its job fails.                                                           *)
PatchesHold == AppliedIsReviewed /\ NoStagingLeft
===============================================================================

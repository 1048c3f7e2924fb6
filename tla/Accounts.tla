------------------------------- MODULE Accounts -------------------------------
(* What account jobs and the distribution of SERVER's key do to one account *)
(* of one Linux host: the scripts that account_command (account/manager.py) *)
(* and key_command (account/keys.py) send, serialised on the host by flock, *)
(* and deploy (server/key_deploy.py), which edits authorized_keys over SFTP *)
(* without that lock, for the account it logs in with.  SERVER runs one     *)
(* operation at a time for an address (module Targets) but gives up a       *)
(* script that takes too long, and the script goes on.                      *)
EXTENDS Naturals, FiniteSets

CONSTANTS
  Ops,           \* operations SERVER starts on the host
  Own,           \* the group that stays, here also the first primary group
  Extra,         \* groups that an operation adds or removes
  MaxEdits,      \* bound: changes made by an administrator of the host
  MaxFaults,     \* bound: timeouts, failing commands and lost connections
  None

VARIABLES
  job,           \* kind of each operation
  step,          \* where an operation is, on the host
  told,          \* what SERVER reports of it
  busy,          \* the operation that holds the lock of the address at SERVER
  flock,         \* the script that holds sm-automation-accounts.lock
  account,       \* the account, or None
  file,          \* authorized_keys: the keys of these operations in it, or None
  read,          \* what an operation read of authorized_keys
  temps,         \* operations whose temporary file is in .ssh
  todo,          \* groups an operation still has to remove
  raced,         \* ghost: operations checked before an administrator's change
  dropped,       \* ghost: <<w, u>>: w wrote the file without the key of u
  edits, faults

vars == <<job, step, told, busy, flock, account, file, read, temps, todo, raced, dropped,
          edits, faults>>

Kinds == {"create", "unlock", "delete", "groups", "remove_groups", "primary_group", "key",
          "deploy"}
Steps == {"new", "flock", "check", "act", "write", "rename", "probe", "ended"}
Account == [system : BOOLEAN, password : {"never", "locked", "set"},
            groups : SUBSET (Extra \cup {Own}), primary : Extra \cup {Own}]

Scripted(w) == job[w] # "deploy"

TypeOK ==
  /\ job \in [Ops -> Kinds] /\ step \in [Ops -> Steps]
  /\ told \in [Ops -> {"none", "completed", "failed"}]
  /\ busy \in Ops \cup {None} /\ flock \in Ops \cup {None}
  /\ account \in Account \cup {None}
  /\ file \in (SUBSET Ops) \cup {None} /\ read \in [Ops -> (SUBSET Ops) \cup {None}]
  /\ temps \subseteq Ops /\ todo \in [Ops -> SUBSET Extra]
  /\ raced \subseteq Ops /\ dropped \subseteq Ops \X Ops
  /\ edits \in 0..MaxEdits /\ faults \in 0..MaxFaults

(* Assumption: what the constants may be.                                   *)
SettingOK ==
  /\ None \notin Ops /\ (\A s \in SUBSET Ops : s # None) /\ None \notin Account
  /\ Extra # {} /\ MaxEdits \in Nat /\ MaxFaults \in Nat

Init ==
  /\ job \in [Ops -> Kinds]
  /\ step = [w \in Ops |-> "new"] /\ told = [w \in Ops |-> "none"]
  /\ busy = None /\ flock = None
  /\ account \in {None} \cup {[system |-> s, password |-> p, groups |-> Extra \cup {Own},
                               primary |-> Own] : s \in BOOLEAN, p \in {"never", "locked"}}
  /\ file \in {None, {}}
  /\ read = [w \in Ops |-> None] /\ temps = {} /\ todo = [w \in Ops |-> {}]
  /\ raced = {} /\ dropped = {} /\ edits = 0 /\ faults = 0

server == <<told, busy>>
home == <<file, read, temps, dropped>>
script == <<flock, todo, raced>>

-------------------------------------------------------------------------------
To(w, s) == step' = [step EXCEPT ![w] = s]
Fault == faults < MaxFaults /\ faults' = faults + 1

(* A script ends, with or without success, and the kernel frees its lock.   *)
End(w) == To(w, "ended") /\ flock' = IF flock = w THEN None ELSE flock

(* SERVER starts the operation under the lock of the address.               *)
Start(w) ==
  /\ step[w] = "new" /\ told[w] = "none" /\ busy = None
  /\ busy' = w /\ To(w, IF Scripted(w) THEN "flock" ELSE "check")
  /\ UNCHANGED <<job, told, script, account, home, edits, faults>>

Answer(w, result) == told' = [told EXCEPT ![w] = result] /\ busy' = None

(* capture gives up at its deadline; the script is not stopped by that.     *)
TimeOut(w) ==
  /\ busy = w /\ Scripted(w) /\ step[w] # "ended" /\ Fault
  /\ Answer(w, "failed")
  /\ UNCHANGED <<job, step, script, account, home, edits>>

-------------------------------------------------------------------------------
(* flock -w 30 9: waits for another script, for 30 seconds.                 *)
MutantLock(w) ==
  /\ step[w] = "flock" /\ To(w, "check")
  /\ UNCHANGED <<job, server, flock, account, home, todo, raced, edits, faults>>

Lock(w) ==
  /\ step[w] = "flock"
  /\ flock = None /\ flock' = w /\ To(w, "check")
  /\ UNCHANGED <<job, server, account, home, todo, raced, edits, faults>>

(* set -e: a script whose lock, check or command fails exits at once; it    *)
(* removes its temporary file on the way out.                               *)
MutantFail(w) ==
  /\ Scripted(w) /\ step[w] \in {"flock", "check", "act", "write", "rename"} /\ Fault
  /\ End(w)
  /\ IF busy = w THEN Answer(w, "failed") ELSE UNCHANGED server
  /\ UNCHANGED <<job, account, file, read, temps, dropped, todo, raced, edits>>

Fail(w) ==
  /\ Scripted(w) /\ step[w] \in {"flock", "check", "act", "write", "rename"} /\ Fault
  /\ End(w) /\ temps' = temps \ {w}
  /\ IF busy = w THEN Answer(w, "failed") ELSE UNCHANGED server
  /\ UNCHANGED <<job, account, file, read, dropped, todo, raced, edits>>

(* What account_command looks at before its command.                        *)
Allowed(w) ==
  IF job[w] = "create" THEN account = None
  ELSE /\ account # None /\ ~account.system
       /\ job[w] = "unlock" => account.password = "locked"
       /\ job[w] = "remove_groups" =>
            Extra \subseteq account.groups /\ account.primary \notin Extra

Check(w) ==
  /\ step[w] = "check" /\ Scripted(w)
  /\ IF Allowed(w)
     THEN /\ To(w, "act") /\ flock' = flock
          /\ todo' = [todo EXCEPT ![w] = Extra]
          /\ UNCHANGED server
     ELSE /\ End(w) /\ todo' = todo
          /\ IF busy = w THEN Answer(w, "failed") ELSE UNCHANGED server
  /\ UNCHANGED <<job, account, home, raced, edits, faults>>

Finish(w) ==
  IF Scripted(w)
  THEN /\ End(w)
       /\ IF busy = w THEN Answer(w, "completed") ELSE UNCHANGED server
  ELSE To(w, "probe") /\ UNCHANGED <<flock, server>>

(* The commands on the account database.                                    *)
NewAccount == [system |-> FALSE, password |-> "never", groups |-> {Own}, primary |-> Own]
Changed(w, a) ==
  CASE job[w] = "create" -> NewAccount
    [] job[w] = "delete" -> None
    [] job[w] = "unlock" -> [a EXCEPT !.password = "set"]
    [] job[w] = "groups" -> [a EXCEPT !.groups = @ \cup Extra]
    [] job[w] = "primary_group" -> [a EXCEPT !.primary = CHOOSE g \in Extra : TRUE]

Act(w) ==
  /\ step[w] = "act" /\ job[w] \notin {"key", "remove_groups"}
  /\ job[w] # "create" => account # None
  /\ account' = Changed(w, account)
  /\ Finish(w)
  /\ UNCHANGED <<job, home, todo, raced, edits, faults>>

(* remove_groups: one gpasswd -d per group.                                 *)
RemoveGroup(w) ==
  /\ step[w] = "act" /\ job[w] = "remove_groups" /\ account # None
  /\ \E g \in todo[w] :
       /\ account' = [account EXCEPT !.groups = @ \ {g}]
       /\ todo' = [todo EXCEPT ![w] = @ \ {g}]
       /\ IF todo[w] = {g} THEN Finish(w) ELSE UNCHANGED <<step, flock, server>>
  /\ UNCHANGED <<job, home, raced, edits, faults>>

-------------------------------------------------------------------------------
(* authorized_keys, by the script (keys.py SCRIPT) or over SFTP (deploy).   *)
Keys(f) == IF f = None THEN {} ELSE f

Read(w) ==
  /\ \/ step[w] = "act" /\ job[w] = "key"
     \/ step[w] = "check" /\ ~Scripted(w)
  /\ read' = [read EXCEPT ![w] = file]
  /\ IF w \in Keys(file) THEN Finish(w) ELSE To(w, "write") /\ UNCHANGED <<flock, server>>
  /\ UNCHANGED <<job, account, file, temps, dropped, todo, raced, edits, faults>>

WriteTemp(w) ==
  /\ step[w] = "write"
  /\ temps' = temps \cup {w} /\ To(w, "rename")
  /\ UNCHANGED <<job, server, script, account, file, read, dropped, edits, faults>>

(* os.replace, or SFTP's posix_rename when there was a file and its plain   *)
(* rename, which replaces nothing, when there was none.                     *)
Clobbers(w) == Keys(file) \ Keys(read[w])

Replace(w) ==
  /\ step[w] = "rename" /\ temps' = temps \ {w}
  /\ IF ~Scripted(w) /\ read[w] = None /\ file # None
     THEN /\ End(w) /\ Answer(w, "failed") /\ UNCHANGED <<file, dropped>>
     ELSE /\ file' = Keys(read[w]) \cup {w}
          /\ dropped' = dropped \cup {<<w, u>> : u \in Clobbers(w)}
          /\ Finish(w)
  /\ UNCHANGED <<job, account, read, todo, raced, edits, faults>>

(* deploy logs in with the key before it says that it is installed.         *)
Probe(w) ==
  /\ step[w] = "probe"
  /\ End(w) /\ Answer(w, "completed")
  /\ UNCHANGED <<job, account, home, todo, raced, edits, faults>>

(* A step of deploy fails, that login or the connection itself: over a lost *)
(* connection it cannot remove its temporary file.                          *)
Disconnect(w) ==
  /\ ~Scripted(w) /\ busy = w /\ Fault
  /\ End(w) /\ Answer(w, "failed")
  /\ temps' \in {temps, temps \ {w}}
  /\ UNCHANGED <<job, account, file, read, dropped, todo, raced, edits>>

(* An administrator of the host creates, changes or removes the account.    *)
Edit ==
  /\ edits < MaxEdits /\ edits' = edits + 1
  /\ account' \in {None} \cup {[system |-> s, password |-> p, groups |-> Extra \cup {Own},
                                primary |-> g] :
                               s \in BOOLEAN, p \in {"never", "set"}, g \in Extra \cup {Own}}
  /\ raced' = raced \cup {w \in Ops : step[w] = "act"}
  /\ UNCHANGED <<job, step, server, flock, home, todo, faults>>

OnHost(w) ==
  \/ Lock(w) \/ Fail(w) \/ Check(w) \/ Act(w) \/ RemoveGroup(w)
  \/ Read(w) \/ WriteTemp(w) \/ Replace(w) \/ Probe(w)

Next ==
  \/ \E w \in Ops : Start(w) \/ TimeOut(w) \/ OnHost(w) \/ Disconnect(w)
  \/ Edit

Spec == Init /\ [][Next]_vars

-------------------------------------------------------------------------------
(* Properties *)

(* What a command was checked against still holds when it runs, however     *)
(* many scripts outlived their jobs: only an administrator can come between *)
(* ("Protected system account", "Cannot remove primary group", "Unlock      *)
(* requires a previously set password hash", account/manager.py:83-115).    *)
ChecksHold ==
  \A w \in Ops \ raced :
    step[w] = "act" /\ (job[w] = "remove_groups" => todo[w] = Extra) => Allowed(w)

(* A key reported as installed stays; it is lost only when the script and   *)
(* SERVER's own key meet because SERVER gave one of them up.                *)
KeysKept ==
  /\ \A w \in Ops : told[w] = "completed" /\ job[w] \in {"key", "deploy"} =>
       w \in Keys(file) \/ \E u \in Ops : <<u, w>> \in dropped
  /\ \A w, u \in Ops : <<w, u>> \in dropped =>
       /\ Scripted(w) # Scripted(u)
       /\ \E v \in {w, u} : Scripted(v) /\ told[v] = "failed"

(* No copy of the keys is left in .ssh, unless the connection broke that    *)
(* would have removed it.                                                   *)
NoKeyCopies ==
  \A w \in temps : step[w] = "rename" \/ (~Scripted(w) /\ told[w] = "failed")

(* Accounts: what a check saw still holds when the command runs, keys that  *)
(* are reported as deployed are in the file, and no copy of it stays.       *)
AccountsHold == ChecksHold /\ KeysKept /\ NoKeyCopies
===============================================================================

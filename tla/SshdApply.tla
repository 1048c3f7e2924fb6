----------------------------- MODULE SshdApply -----------------------------
(***************************************************************************)
(* How the sshd configuration of one machine is changed:                   *)
(* apply_sshd_settings and the shell scripts it sends (security/apply.py), *)
(* called by the security_apply branch of the SERVER's job worker          *)
(* (service.py) or by the command-line tool (scripts/security_apply.py).   *)
(*                                                                         *)
(* Each transaction t has two sides.  pc[t] is the thread that drives it;  *)
(* what it sends runs on the machine as script[t], one script at a time,   *)
(* and goes on when the thread stops waiting for it.  The machine is what  *)
(* all transactions share: the file cfg, the configuration sshd has        *)
(* loaded, the lock directory and one saved original per transaction.      *)
(*                                                                         *)
(* An administrator edits the same file, takes no lock, and may repair     *)
(* what a killed script left behind.                                       *)
(***************************************************************************)
EXTENDS Naturals

CONSTANTS
    Tx,         \* transactions: one (job, host) pair each
    Ips,        \* addresses of the machine, a transaction uses one
    Options,    \* values of the SSH setting that a plan changes
    Allowed,    \* the values the policy accepts
    Wanted,     \* the first of them, which a plan recommends
    Barrings,   \* possible sets of values under which the login in use fails
    Edits,      \* edits an administrator may make elsewhere in the file
    MaxFaults,  \* bound on timeouts, signals, kills and failing commands
    None

ASSUME TxAssumption == None \notin Tx
ASSUME PolicyAssumption == Allowed \subseteq Options /\ Wanted \in Allowed
ASSUME FaultsAssumption == MaxFaults \in Nat

VARIABLES
    cfg,        \* /etc/ssh/sshd_config, Torn while it is half written
    loaded,     \* the configuration sshd answers new connections with
    lock,       \* the transaction whose mkdir made the lock directory, or None
    saved,      \* saved[t]: the original in t's backup directory, or None
    candidate,  \* candidate[t]: the file prepared next to it, or None
    digest,     \* digest[t]: the content the script reported, or None
    script,     \* script[t]: where t's script on the machine is
    pc,         \* pc[t]: where the SERVER's thread for t is
    result,     \* result[t]: what the job's row will say, or None
    tool,       \* tool[t]: what drives t, a "job" of the SERVER or the "script"
    ip,         \* ip[t]: the address of t's row
    plan,       \* plan[t]: current and recommended value of the setting
    barred,     \* values under which a fresh login to the machine fails
    cancelled,  \* the transactions whose job was asked to stop
    faults,     \* faults so far
    made,       \* edits the administrator has made
    settled,    \* those of them made while no script held the lock
    author      \* who wrote cfg last (history, not part of the program)

machine == <<cfg, loaded, lock, author, settled>>
files   == <<saved, candidate, digest>>
input   == <<tool, ip, plan, barred>>
vars    == <<machine, files, script, pc, result, input, cancelled, faults, made>>
-----------------------------------------------------------------------------
Config == [option : Options, edits : SUBSET Edits]
Torn   == [option |-> None, edits |-> {}]
Plan   == [current : Options, recommended : Options]

ByAdmin     == <<"admin", None>>
AppliedBy(t)  == <<"apply", t>>
RestoredBy(t) == <<"restore", t>>
TornBy(t) == <<"tear", t>>
Authors == {ByAdmin} \union ({"apply", "restore", "tear"} \X Tx)

(* Scripts inside the lock: before and after `changed=1` of the apply      *)
(* script, its way out, and the rollback script.                           *)
Unchanged == {"locked", "checked", "copied", "staged"}
Changed   == {"writing", "written", "reloaded"}
Cleanup   == {"restoring", "reviving"}
Rollback  == {"checking", "matched", "putback"}
Leaving   == {"leaving", "failing", "sticking"}
Inside    == Unchanged \union Changed \union Cleanup \union Rollback \union Leaving
Sent      == {"apply", "rollback", "discard"}
Ended     == {"ok", "error", "stuck", "dead"}
ScriptStates == {"none"} \union Sent \union Inside \union Ended

Waiting   == {"applying", "rolling", "discarding"}
ServerStates == {"queued", "holding", "verified", "backed_up", "probing", "done"}
                  \union Waiting
Results == {"applied", "unchanged", "failed", "lost", "restored", "manual", "cancelled"}

ASSUME NoneAssumption == None \notin Options \union Config \union {Torn} \union Results

(* build_remediation_plan under the SERVER's policy: no action when the    *)
(* value is accepted.  The plan file of the tool may have been made under  *)
(* any policy.                                                             *)
Planned(v) == [current |-> v, recommended |-> IF v \in Allowed THEN v ELSE Wanted]
Plans(what) == IF what = "job" THEN {Planned(v) : v \in Options}
                               ELSE {p \in Plan : p.current # p.recommended}

(* account_locks[ip]: a thread of the SERVER holds the lock of its address *)
(* from its first step to its result.                                      *)
Holds(t) == tool[t] = "job" /\ pc[t] \notin {"queued", "done"}
Running(t) == script[t] \in Sent \union Inside

TypeOK ==
    /\ cfg \in Config \union {Torn}
    /\ loaded \in Config
    /\ lock \in Tx \union {None}
    /\ saved \in [Tx -> Config \union {None}]
    /\ candidate \in [Tx -> Config \union {None}]
    /\ digest \in [Tx -> Config \union {None}]
    /\ script \in [Tx -> ScriptStates]
    /\ pc \in [Tx -> ServerStates]
    /\ result \in [Tx -> Results \union {None}]
    /\ tool \in [Tx -> {"job", "script"}]
    /\ ip \in [Tx -> Ips]
    /\ plan \in [Tx -> Plan]
    /\ barred \in Barrings
    /\ cancelled \subseteq Tx
    /\ faults \in 0..MaxFaults
    /\ made \subseteq Edits
    /\ settled \subseteq made
    /\ author \in Authors

Init ==
    /\ cfg \in [option : Options, edits : {{}}]
    /\ loaded = cfg
    /\ lock = None
    /\ saved = [t \in Tx |-> None]
    /\ candidate = [t \in Tx |-> None]
    /\ digest = [t \in Tx |-> None]
    /\ script = [t \in Tx |-> "none"]
    /\ pc = [t \in Tx |-> "queued"]
    /\ result = [t \in Tx |-> None]
    /\ tool \in [Tx -> {"job", "script"}]
    /\ ip \in [Tx -> Ips]
    /\ plan \in [Tx -> Plan] /\ \A t \in Tx : plan[t] \in Plans(tool[t])
    /\ barred \in Barrings
    /\ cancelled = {}
    /\ faults = 0
    /\ made = {}
    /\ settled = {}
    /\ author = ByAdmin

Fault == faults < MaxFaults /\ faults' = faults + 1
Unfaulted == UNCHANGED faults

(***************************************************************************)
(* The thread that drives a transaction.                                   *)
(***************************************************************************)
Enter(t, state)  == pc' = [pc EXCEPT ![t] = state]
Send(t, command) == script' = [script EXCEPT ![t] = command]
Decide(t, r)     == result' = [result EXCEPT ![t] = r]
Finish(t, r)     == Enter(t, "done") /\ Decide(t, r)

(* The worker waits for the address lock, then looks at the cancel flag.   *)
Begin(t) ==
    /\ pc[t] = "queued" /\ tool[t] = "job"
    /\ \A u \in Tx : Holds(u) => ip[u] # ip[t]
    /\ IF t \in cancelled THEN Finish(t, "cancelled")
                          ELSE Enter(t, "holding") /\ UNCHANGED result
    /\ UNCHANGED <<machine, files, script, input, cancelled, faults, made>>

LoginWorks == loaded.option \notin barred

(* A login and a fresh audit, which must equal the one the plan was made   *)
(* from.  A plan without actions is done.  (The refusal to relax a         *)
(* disabled root login is not modelled: no plan made here asks for it.)    *)
Verify(t) ==
    /\ pc[t] = "holding"
    /\ \/ /\ Fault \/ ((~LoginWorks \/ cfg.option # plan[t].current) /\ Unfaulted)
          /\ Finish(t, "failed")
       \/ /\ LoginWorks /\ cfg.option = plan[t].current
          /\ IF plan[t].current = plan[t].recommended
             THEN Finish(t, "unchanged")
             ELSE Enter(t, "verified") /\ UNCHANGED result
          /\ Unfaulted
    /\ UNCHANGED <<machine, files, script, input, cancelled, made>>

(* The SERVER's own backup of the host; an incomplete one ends the job.    *)
BackUp(t) ==
    /\ pc[t] = "verified"
    /\ \/ Fault /\ Finish(t, "failed")
       \/ Unfaulted /\ Enter(t, "backed_up") /\ UNCHANGED result
    /\ UNCHANGED <<machine, files, script, input, cancelled, made>>

Apply(t) ==
    /\ pc[t] = "backed_up"
    /\ IF t \in cancelled
       THEN Finish(t, "cancelled") /\ UNCHANGED script
       ELSE Enter(t, "applying") /\ Send(t, "apply") /\ UNCHANGED result
    /\ UNCHANGED <<machine, files, input, cancelled, faults, made>>

(* The tool goes straight to the transaction.                              *)
RunTool(t) ==
    /\ pc[t] = "queued" /\ tool[t] = "script"
    /\ IF LoginWorks THEN Enter(t, "applying") /\ Send(t, "apply") /\ UNCHANGED result
                     ELSE Finish(t, "failed") /\ UNCHANGED script
    /\ UNCHANGED <<machine, files, input, cancelled, faults, made>>

(* client.execute raises on a nonzero exit status; the error text is what  *)
(* the script wrote, "ROLLBACK FAILED; manual recovery required" included. *)
Applied(t) ==
    /\ pc[t] = "applying"
    /\ script[t] \in Ended
    /\ CASE script[t] = "ok"    -> Enter(t, "probing") /\ UNCHANGED result
         [] script[t] = "stuck" -> Finish(t, "manual")
         [] OTHER               -> Finish(t, "failed")
    /\ UNCHANGED <<machine, files, script, input, cancelled, faults, made>>

(* discard_backup: jobs remove the saved original, the tool keeps it.      *)
Close(t, r) ==
    /\ Decide(t, r)
    /\ IF tool[t] = "job" THEN Enter(t, "discarding") /\ Send(t, "discard")
                          ELSE Enter(t, "done") /\ UNCHANGED script

(* Mutant: the cleanup runs in a finally, after a failed rollback too.     *)
MutantRolledBack(t) ==
    /\ pc[t] = "rolling"
    /\ script[t] \in Ended
    /\ Close(t, IF script[t] = "ok" THEN "restored" ELSE "manual")
    /\ UNCHANGED <<machine, files, input, cancelled, faults, made>>

(* A fresh login.  What it proves stands even if the cleanup then fails.   *)
Probe(t) ==
    /\ pc[t] = "probing"
    /\ \/ LoginWorks /\ Unfaulted /\ Close(t, "applied")
       \/ /\ (~LoginWorks /\ Unfaulted) \/ Fault
          /\ Enter(t, "rolling") /\ Send(t, "rollback") /\ UNCHANGED result
    /\ UNCHANGED <<machine, files, input, cancelled, made>>

RolledBack(t) ==
    /\ pc[t] = "rolling"
    /\ script[t] \in Ended
    /\ IF script[t] = "ok" THEN Close(t, "restored")
                           ELSE Finish(t, "manual") /\ UNCHANGED script
    /\ UNCHANGED <<machine, files, input, cancelled, faults, made>>

Discarded(t) ==
    /\ pc[t] = "discarding"
    /\ script[t] \in Ended
    /\ Enter(t, "done")
    /\ UNCHANGED <<machine, files, script, result, input, cancelled, faults, made>>

(* The channel times out or breaks: the thread stops waiting, the script   *)
(* goes on.                                                                *)
GiveUp(t) ==
    /\ pc[t] \in Waiting
    /\ script[t] \notin Ended
    /\ Fault
    /\ CASE pc[t] = "applying" -> Finish(t, "lost")
         [] pc[t] = "rolling"  -> Finish(t, "manual")
         [] OTHER              -> Enter(t, "done") /\ UNCHANGED result
    /\ UNCHANGED <<machine, files, script, input, cancelled, made>>

Cancel(t) ==
    /\ pc[t] # "done" /\ tool[t] = "job"
    /\ t \notin cancelled
    /\ cancelled' = cancelled \union {t}
    /\ UNCHANGED <<machine, files, script, pc, result, input, faults, made>>
-----------------------------------------------------------------------------
(***************************************************************************)
(* The scripts on the machine.                                             *)
(***************************************************************************)
server == <<pc, result, input, cancelled, made>>

Go(t, state) == script' = [script EXCEPT ![t] = state]
Write(content, by) == cfg' = content /\ author' = by

(* A write that is cut off has truncated the file, or had not begun.       *)
CutOff(t) == Write(Torn, TornBy(t)) \/ UNCHANGED <<cfg, author>>

(* Mutant: the exit trap is set before mkdir.                              *)
MutantStart(t) ==
    /\ script[t] = "apply"
    /\ IF lock = None THEN lock' = t /\ Go(t, "locked")
                      ELSE lock' = lock /\ Go(t, "failing")
    /\ UNCHANGED <<cfg, loaded, author, settled, files, server, faults>>

(* mkdir of the lock directory; the trap is set only after it.             *)
MakeLock(t, first, next) ==
    /\ script[t] = first
    /\ IF lock = None THEN lock' = t /\ Go(t, next)
                      ELSE lock' = lock /\ Go(t, "error")
    /\ UNCHANGED <<cfg, loaded, author, settled, files, server, faults>>

Start(t) == MakeLock(t, "apply", "locked")
StartRollback(t) == MakeLock(t, "rollback", "checking")

(* A regular file, no Match, valid, and the value the plan started from.   *)
Check(t) ==
    /\ script[t] = "locked"
    /\ \/ /\ (cfg.option # plan[t].current /\ Unfaulted) \/ Fault
          /\ Go(t, "failing")
       \/ cfg.option = plan[t].current /\ Go(t, "checked") /\ Unfaulted
    /\ UNCHANGED <<machine, files, server>>

Copy(t) ==
    /\ script[t] = "checked"
    /\ saved' = [saved EXCEPT ![t] = cfg]
    /\ Go(t, "copied")
    /\ UNCHANGED <<machine, candidate, digest, server, faults>>

(* The wanted settings, then every other line of the file as it is now.    *)
Prepare(t) ==
    /\ script[t] = "copied"
    /\ candidate' = [candidate EXCEPT ![t] = [cfg EXCEPT !.option = plan[t].recommended]]
    /\ Go(t, "staged")
    /\ UNCHANGED <<machine, saved, digest, server, faults>>

ValidateCandidate(t) ==
    /\ script[t] = "staged"
    /\ \/ Fault /\ Go(t, "failing")
       \/ Unfaulted /\ Go(t, "writing")
    /\ UNCHANGED <<machine, files, server>>

(* cat candidate > cfg, with changed=1 since the line before.              *)
Overwrite(t) ==
    /\ script[t] = "writing"
    /\ \/ Write(candidate[t], AppliedBy(t)) /\ Go(t, "written") /\ Unfaulted
       \/ Fault /\ Go(t, "restoring") /\ CutOff(t)
    /\ UNCHANGED <<loaded, lock, settled, files, server>>

Reload(t) ==
    /\ script[t] = "written"
    /\ \/ /\ cfg.option = plan[t].recommended /\ Unfaulted
          /\ loaded' = cfg /\ Go(t, "reloaded")
       \/ /\ (cfg.option # plan[t].recommended /\ Unfaulted) \/ Fault
          /\ loaded' = loaded /\ Go(t, "restoring")
    /\ UNCHANGED <<cfg, lock, author, settled, files, server>>

(* Mutant: changed=0 before the last check.                                *)
MutantReport(t) ==
    /\ script[t] = "reloaded"
    /\ \/ /\ cfg.option = plan[t].recommended /\ Unfaulted
          /\ digest' = [digest EXCEPT ![t] = cfg] /\ Go(t, "leaving")
       \/ /\ (cfg.option # plan[t].recommended /\ Unfaulted) \/ Fault
          /\ digest' = digest /\ Go(t, "failing")
    /\ UNCHANGED <<machine, saved, candidate, server>>

(* The last check, the digest, then changed=0: from here nothing restores. *)
Report(t) ==
    /\ script[t] = "reloaded"
    /\ \/ /\ cfg.option = plan[t].recommended /\ Unfaulted
          /\ digest' = [digest EXCEPT ![t] = cfg] /\ Go(t, "leaving")
       \/ /\ (cfg.option # plan[t].recommended /\ Unfaulted) \/ Fault
          /\ digest' = digest /\ Go(t, "restoring")
    /\ UNCHANGED <<machine, saved, candidate, server>>

(* The exit trap with changed=1.                                           *)
Restore(t) ==
    /\ script[t] = "restoring"
    /\ \/ Write(saved[t], RestoredBy(t)) /\ Go(t, "reviving") /\ Unfaulted
       \/ Fault /\ Go(t, "sticking") /\ CutOff(t)
    /\ UNCHANGED <<loaded, lock, settled, files, server>>

Revive(t) ==
    /\ script[t] = "reviving"
    /\ \/ loaded' = cfg /\ Go(t, "failing") /\ Unfaulted
       \/ Fault /\ Go(t, "sticking") /\ UNCHANGED loaded
    /\ UNCHANGED <<cfg, lock, author, settled, files, server>>

(* Mutant: the rollback does not compare the file with the digest.         *)
MutantCheckDigest(t) ==
    /\ script[t] = "checking"
    /\ Go(t, "matched")
    /\ UNCHANGED <<machine, files, server, faults>>

(* The exit trap's rmdir and the exit status.                              *)
Leave(t) ==
    /\ script[t] \in Leaving
    /\ lock' = None
    /\ Go(t, CASE script[t] = "leaving"  -> "ok"
               [] script[t] = "failing"  -> "error"
               [] script[t] = "sticking" -> "stuck")
    /\ UNCHANGED <<cfg, loaded, author, settled, files, server, faults>>

CheckDigest(t) ==
    /\ script[t] = "checking"
    /\ Go(t, IF cfg = digest[t] THEN "matched" ELSE "failing")
    /\ UNCHANGED <<machine, files, server, faults>>

PutBack(t) ==
    /\ script[t] = "matched"
    /\ \/ Write(saved[t], RestoredBy(t)) /\ Go(t, "putback") /\ Unfaulted
       \/ Fault /\ Go(t, "failing") /\ CutOff(t)
    /\ UNCHANGED <<loaded, lock, settled, files, server>>

(* Mutant: the rollback does not reload sshd.                              *)
MutantReloadOriginal(t) ==
    /\ script[t] = "putback"
    /\ Go(t, IF cfg = saved[t] THEN "leaving" ELSE "failing")
    /\ UNCHANGED <<machine, files, server, faults>>

(* Validate, reload, then compare the file with the backup once more.      *)
ReloadOriginal(t) ==
    /\ script[t] = "putback"
    /\ \/ /\ loaded' = cfg /\ Unfaulted
          /\ Go(t, IF cfg = saved[t] THEN "leaving" ELSE "failing")
       \/ Fault /\ Go(t, "failing") /\ UNCHANGED loaded
    /\ UNCHANGED <<cfg, lock, author, settled, files, server>>

Discard(t) ==
    /\ script[t] = "discard"
    /\ \/ /\ saved' = [saved EXCEPT ![t] = None]
          /\ candidate' = [candidate EXCEPT ![t] = None]
          /\ Go(t, "ok") /\ Unfaulted
       \/ /\ Fault /\ Go(t, "error")
          /\ saved' \in {saved, [saved EXCEPT ![t] = None]}
          /\ candidate' \in {candidate, [candidate EXCEPT ![t] = None]}
    /\ UNCHANGED <<machine, digest, server>>

ScriptStep(t) ==
    \/ Start(t) \/ Check(t) \/ Copy(t) \/ Prepare(t) \/ ValidateCandidate(t)
    \/ Overwrite(t) \/ Reload(t) \/ Report(t) \/ Restore(t) \/ Revive(t)
    \/ StartRollback(t) \/ CheckDigest(t) \/ PutBack(t) \/ ReloadOriginal(t)
    \/ Leave(t) \/ Discard(t)

(* HUP, INT or TERM during the apply script: exit 1, through the exit trap. *)
Signal(t) ==
    /\ Fault
    /\ \/ script[t] \in Unchanged /\ Go(t, "failing")
       \/ script[t] \in Changed /\ Go(t, "restoring")
    /\ UNCHANGED <<machine, files, server>>

(* The script dies without running its trap (kill -9, a broken pipe, the   *)
(* machine goes down): the lock directory stays, a write may be torn.      *)
Overwriting == {"writing", "restoring", "matched"}

Kill(t) ==
    /\ Fault
    /\ Running(t)
    /\ Go(t, "dead")
    /\ IF script[t] \in Overwriting THEN CutOff(t) ELSE UNCHANGED <<cfg, author>>
    /\ UNCHANGED <<loaded, lock, settled, files, server>>
-----------------------------------------------------------------------------
(***************************************************************************)
(* The administrator of the machine.                                       *)
(***************************************************************************)
Edit(e) ==
    /\ e \in Edits \ made
    /\ cfg # Torn
    /\ \E o \in Options :
         Write([option |-> o, edits |-> cfg.edits \union {e}], ByAdmin)
    /\ loaded' \in {loaded, cfg'}
    /\ made' = made \union {e}
    /\ settled' = IF lock = None THEN settled \union {e} ELSE settled
    /\ UNCHANGED <<lock, files, script, pc, result, input, cancelled, faults>>

(* "inspect lock", "manual recovery required": a lock without a script is  *)
(* removed, a torn file replaced by the original of the script that tore it. *)
Repair ==
    /\ \/ lock # None /\ script[lock] = "dead"
       \/ lock = None /\ cfg = Torn
    /\ lock' = None
    /\ Write(IF cfg = Torn THEN saved[author[2]] ELSE cfg, ByAdmin)
    /\ loaded' = cfg'
    /\ UNCHANGED <<settled, files, script, server, faults>>

ServerStep(t) ==
    \/ Begin(t) \/ Verify(t) \/ BackUp(t) \/ Apply(t) \/ RunTool(t) \/ Applied(t)
    \/ Probe(t) \/ RolledBack(t) \/ Discarded(t)

Quiet == \A t \in Tx : pc[t] = "done" /\ ~Running(t)

Done == Quiet /\ UNCHANGED vars

Next ==
    \/ \E t \in Tx : \/ ServerStep(t) \/ ScriptStep(t)
                     \/ GiveUp(t) \/ Cancel(t) \/ Signal(t) \/ Kill(t)
    \/ \E e \in Edits : Edit(e)
    \/ Repair
    \/ Done

Spec == Init /\ [][Next]_vars
-----------------------------------------------------------------------------
(***************************************************************************)
(* Properties.                                                             *)
(***************************************************************************)

(* The lock directory belongs to the script that works on the file, on     *)
(* every path: no exit of one transaction removes the lock of another, and *)
(* no script that ends by itself leaves its own behind.                    *)
LockExact ==
    \A t \in Tx :
        /\ script[t] \in Inside => lock = t
        /\ lock = t => script[t] \in Inside \union {"dead"}

(* What an administrator saved while no script was at work is never lost:  *)
(* neither an apply nor a rollback that comes later puts back a file       *)
(* without it, whichever transactions ran, failed or were killed between.  *)
SettledEditsSurvive ==
    settled \subseteq (IF cfg = Torn THEN saved[author[2]].edits ELSE cfg.edits)

(* The file is as t left it, complete or not.                              *)
LeftBy(t) == author \in {AppliedBy(t), TornBy(t)}

(* As long as the machine has the file of a transaction that is not known  *)
(* to work, or a torn one, the original is still there to go back to.      *)
OriginalAtHand ==
    \A t \in Tx : LeftBy(t) /\ result[t] # "applied" => saved[t] # None

(* A row does not claim a state that is not so.  "restored": the machine   *)
(* does not have t's file.  Any other refusal or failure: nor then, unless *)
(* the script died and its lock directory says so.  "applied": nothing has *)
(* been rolled back.  Not covered: "lost" and "manual" claim nothing.      *)
ReportsHonest ==
    \A t \in Tx :
        /\ result[t] = "restored" => ~LeftBy(t)
        /\ result[t] \in {"failed", "unchanged", "cancelled"} /\ LeftBy(t) => lock = t
        /\ result[t] = "applied" => author \notin {RestoredBy(t), TornBy(t)}

(* As long as only jobs change the file, nobody is locked out in silence:  *)
(* when all is over and the configuration that a transaction left in force *)
(* refuses the login, some row says so ("manual", "lost") or the lock of a *)
(* killed script is there.                                                 *)
LockoutIsReported ==
    Quiet /\ author # ByAdmin /\ ~LoginWorks /\ made = {} /\ (\A t \in Tx : tool[t] = "job")
      => \/ \E t \in Tx : result[t] \in {"manual", "lost"}
         \/ lock # None
=============================================================================

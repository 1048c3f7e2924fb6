-------------------------- MODULE SshdApplyProofs --------------------------
(***************************************************************************)
(* Proofs about SshdApply, for any transactions, addresses, edits and      *)
(* bounds: its types, whose lock the lock directory is, that settled edits *)
(* survive, that the original is kept as long as it may be needed, and     *)
(* that a row tells the truth about the machine.                           *)
(*                                                                         *)
(* One invariant is inductive for all of them: PhaseInv ties the driving   *)
(* thread to its script, FilesInv says which files a script has made by    *)
(* then, SettledInv what they contain, AuthorInv who wrote the             *)
(* configuration.  There is one lemma per part and in it one step per      *)
(* action.                                                                 *)
(***************************************************************************)
EXTENDS SshdApply, TLAPS

(* What the thread's state says about the script.                          *)
EarlyApply == {"apply"} \union Unchanged \union Changed
ApplyPhase == EarlyApply \union Cleanup \union Leaving \union Ended
RollbackPhase == {"rollback", "leaving", "failing", "ok", "error", "dead"} \union Rollback
DiscardPhase == {"discard", "ok", "error", "dead"}

PhaseInv ==
  \A t \in Tx :
    /\ pc[t] \in {"queued", "holding", "verified", "backed_up"} => script[t] = "none"
    /\ pc[t] = "applying" => script[t] \in ApplyPhase
    /\ pc[t] = "probing" => script[t] = "ok"
    /\ pc[t] = "rolling" => script[t] \in RollbackPhase
    /\ pc[t] = "discarding" => script[t] \in DiscardPhase /\ result[t] \in {"applied", "restored"}
    /\ pc[t] \notin {"discarding", "done"} => result[t] = None
    /\ pc[t] = "done" => result[t] # None
    /\ pc[t] = "done" /\ result[t] \in {"failed", "unchanged", "cancelled"} => ~Running(t)
    /\ pc[t] = "done" /\ result[t] \in {"applied", "restored"} => script[t] \in DiscardPhase
    /\ pc[t] = "done" /\ result[t] = "lost" => script[t] \in ApplyPhase
    /\ pc[t] = "done" /\ result[t] = "manual" => script[t] \in RollbackPhase \union {"stuck"}

(* Where the original must be on the machine, and what the files are.     *)
Copied == {"copied", "staged", "writing", "written", "reloaded", "restoring", "reviving",
           "matched", "putback"}
Readable == (Copied \ {"restoring"}) \union {"checked"}
Failing == {"sticking", "stuck", "failing", "error", "dead"}
Keeping(t) == \/ script[t] \in Copied \union {"rollback", "checking"}
              \/ pc[t] \in {"probing", "rolling"}
              \/ pc[t] = "applying" /\ script[t] \in {"leaving", "ok"}
FilesInv ==
  /\ cfg = Torn => \E t \in Tx : author = TornBy(t)
  /\ \A t \in Tx :
       /\ author = TornBy(t) => /\ cfg = Torn /\ saved[t] # None
                                /\ script[t] \in {"restoring"} \union Failing
       /\ script[t] \in Readable => cfg # Torn
       /\ Keeping(t) => saved[t] # None
       /\ script[t] \in {"staged", "writing"} => candidate[t] # None
       /\ script[t] \in {"none"} \union EarlyApply => digest[t] = None
(* Every file that may become the configuration has the settled edits.     *)
SettledInv ==
  /\ cfg.edits \subseteq made
  /\ cfg # Torn => settled \subseteq cfg.edits
  /\ \A t \in Tx :
      /\ author = TornBy(t) => settled \subseteq saved[t].edits
      /\ script[t] \in Copied => settled \subseteq saved[t].edits
      /\ script[t] \in {"staged", "writing"} => settled \subseteq candidate[t].edits
      /\ saved[t] # None => saved[t].edits \subseteq made
      /\ candidate[t] # None => candidate[t].edits \subseteq made
      /\ digest[t] # None => /\ digest[t].edits \subseteq made
                             /\ saved[t] # None /\ settled \subseteq digest[t].edits
                                  => settled \subseteq saved[t].edits
(* Who can have written the configuration, by the state of the script.     *)
AuthorInv ==
  \A t \in Tx :
    /\ script[t] \in {"none", "apply", "writing"} \union Unchanged =>
          author \notin {AppliedBy(t), RestoredBy(t), TornBy(t)}
    /\ script[t] \in Changed => author \notin {RestoredBy(t), TornBy(t)}
    /\ script[t] = "putback" => ~LeftBy(t)
    /\ script[t] = "reviving" => ~LeftBy(t)
    /\ pc[t] = "applying" /\ script[t] \in {"failing", "error"} => ~LeftBy(t)
    /\ pc[t] = "applying" /\ script[t] \in {"leaving", "ok"} => author \notin {RestoredBy(t), TornBy(t)}
    /\ pc[t] = "applying" /\ script[t] = "dead" /\ LeftBy(t) => lock = t
    /\ pc[t] = "probing" => author \notin {RestoredBy(t), TornBy(t)}
    /\ pc[t] = "rolling" /\ script[t] \in {"leaving", "ok"} => ~LeftBy(t)
    /\ LeftBy(t) /\ result[t] # "applied" => saved[t] # None

(* A fault stays within its bound.                                         *)
LEMMA FaultType == ASSUME faults \in 0..MaxFaults, Fault PROVE faults' \in 0..MaxFaults
  BY FaultsAssumption DEF Fault

(* Types.  A script reads and writes files that are there: FilesInv.       *)
LEMMA TypeStep ==
  ASSUME TypeOK, FilesInv, LockExact, Next
  PROVE  TypeOK'
<1>. USE DEF TypeOK, CutOff, vars, machine, files, input, server, Enter, Send, Decide,
   Finish,
   Close, Go, Write, Unfaulted, Inside, Unchanged, Changed, Cleanup, Rollback, Leaving,
   Sent,
   Ended, Waiting, ServerStates, ScriptStates, Results, Config, Torn, Plan, Authors,
   ByAdmin,
   AppliedBy, RestoredBy, TornBy, LeftBy
<1>1. ASSUME NEW t \in Tx, Begin(t) PROVE TypeOK'
  BY <1>1 DEF Begin
<1>2. ASSUME NEW t \in Tx, Verify(t) PROVE TypeOK'
  BY <1>2, FaultType DEF Verify
<1>3. ASSUME NEW t \in Tx, BackUp(t) PROVE TypeOK'
  BY <1>3, FaultType DEF BackUp
<1>4. ASSUME NEW t \in Tx, Apply(t) PROVE TypeOK'
  BY <1>4 DEF Apply
<1>5. ASSUME NEW t \in Tx, RunTool(t) PROVE TypeOK'
  BY <1>5 DEF RunTool
<1>6. ASSUME NEW t \in Tx, Applied(t) PROVE TypeOK'
  BY <1>6 DEF Applied
<1>7. ASSUME NEW t \in Tx, Probe(t) PROVE TypeOK'
  <2>1. CASE LoginWorks /\ Unfaulted /\ Close(t, "applied")
    BY <1>7, <2>1 DEF Probe
  <2>2. CASE Enter(t, "rolling") /\ Send(t, "rollback") /\ UNCHANGED result /\ (Unfaulted \/ Fault)
    BY <1>7, <2>2, FaultType DEF Probe
  <2>. QED
    BY <1>7, <2>1, <2>2 DEF Probe
<1>8. ASSUME NEW t \in Tx, RolledBack(t) PROVE TypeOK'
  BY <1>8 DEF RolledBack
<1>9. ASSUME NEW t \in Tx, Discarded(t) PROVE TypeOK'
  BY <1>9 DEF Discarded
<1>10. ASSUME NEW t \in Tx, Start(t) PROVE TypeOK'
  BY <1>10 DEF Start, MakeLock
<1>11. ASSUME NEW t \in Tx, Check(t) PROVE TypeOK'
  BY <1>11, FaultType DEF Check
<1>12. ASSUME NEW t \in Tx, Copy(t) PROVE TypeOK'
  BY <1>12 DEF Copy, FilesInv, LockExact, Copied, Keeping, Readable, Failing
<1>13. ASSUME NEW t \in Tx, Prepare(t) PROVE TypeOK'
  BY <1>13 DEF Prepare, FilesInv, LockExact, Copied, Keeping, Readable, Failing
<1>14. ASSUME NEW t \in Tx, ValidateCandidate(t) PROVE TypeOK'
  BY <1>14, FaultType DEF ValidateCandidate
<1>15. ASSUME NEW t \in Tx, Overwrite(t) PROVE TypeOK'
  <2>1. candidate[t] \in Config
    BY <1>15 DEF Overwrite, FilesInv
  <2>2. script' \in [Tx -> ScriptStates] /\ faults' \in 0..MaxFaults
    BY <1>15, FaultType DEF Overwrite
  <2>3. cfg' \in Config \cup {Torn} /\ author' \in Authors
    BY <1>15, <2>1 DEF Overwrite, CutOff
  <2>. QED
    BY <1>15, <2>2, <2>3 DEF Overwrite, CutOff
<1>16. ASSUME NEW t \in Tx, Reload(t) PROVE TypeOK'
  BY <1>16, FaultType DEF Reload
<1>17. ASSUME NEW t \in Tx, Report(t) PROVE TypeOK'
  <2>1. cfg \in Config
    BY <1>17 DEF Report, FilesInv, Copied, Readable
  <2>2. script' \in [Tx -> ScriptStates] /\ faults' \in 0..MaxFaults
    BY <1>17, FaultType DEF Report
  <2>3. digest' \in [Tx -> Config \cup {None}]
    BY <1>17, <2>1 DEF Report
  <2>. QED
    BY <1>17, <2>2, <2>3 DEF Report
<1>18. ASSUME NEW t \in Tx, Restore(t) PROVE TypeOK'
  BY <1>18, FaultType DEF Restore, FilesInv, LockExact, Copied, Keeping, Readable, Failing
<1>19. ASSUME NEW t \in Tx, Revive(t) PROVE TypeOK'
  BY <1>19, FaultType DEF Revive, FilesInv, LockExact, Copied, Keeping, Readable, Failing
<1>20. ASSUME NEW t \in Tx, StartRollback(t) PROVE TypeOK'
  BY <1>20 DEF StartRollback, MakeLock
<1>21. ASSUME NEW t \in Tx, CheckDigest(t) PROVE TypeOK'
  BY <1>21 DEF CheckDigest
<1>22. ASSUME NEW t \in Tx, PutBack(t) PROVE TypeOK'
  <2>1. saved[t] \in Config
    BY <1>22 DEF PutBack, FilesInv, Keeping, Copied
  <2>2. script' \in [Tx -> ScriptStates] /\ faults' \in 0..MaxFaults
    BY <1>22, FaultType DEF PutBack
  <2>3. cfg' \in Config \cup {Torn} /\ author' \in Authors
    BY <1>22, <2>1 DEF PutBack, CutOff
  <2>. QED
    BY <1>22, <2>2, <2>3 DEF PutBack, CutOff
<1>23. ASSUME NEW t \in Tx, ReloadOriginal(t) PROVE TypeOK'
  BY <1>23, FaultType DEF ReloadOriginal, FilesInv, LockExact, Copied, Keeping,
     Readable, Failing
<1>24. ASSUME NEW t \in Tx, Leave(t) PROVE TypeOK'
  BY <1>24 DEF Leave
<1>25. ASSUME NEW t \in Tx, Discard(t) PROVE TypeOK'
  BY <1>25, FaultType DEF Discard
<1>26. ASSUME NEW t \in Tx, GiveUp(t) PROVE TypeOK'
  BY <1>26, FaultType DEF GiveUp
<1>27. ASSUME NEW t \in Tx, Cancel(t) PROVE TypeOK'
  BY <1>27 DEF Cancel
<1>28. ASSUME NEW t \in Tx, Signal(t) PROVE TypeOK'
  BY <1>28, FaultType DEF Signal
<1>29. ASSUME NEW t \in Tx, Kill(t) PROVE TypeOK'
  BY <1>29, FaultType DEF Kill, Overwriting, Running
<1>30. CASE Repair
  BY <1>30 DEF Repair, FilesInv, LockExact, Copied, Keeping, Readable, Failing
<1>31. ASSUME NEW e \in Edits, Edit(e) PROVE TypeOK'
  BY <1>31 DEF Edit
<1>32. CASE Done
  BY <1>32 DEF Done
<1>. QED
  BY <1>1, <1>2, <1>3, <1>4, <1>5, <1>6, <1>7, <1>8, <1>9, <1>10, <1>11, <1>12, <1>13,
     <1>14, <1>15, <1>16, <1>17, <1>18, <1>19, <1>20, <1>21, <1>22, <1>23, <1>24, <1>25,
     <1>26, <1>27, <1>28, <1>29, <1>30, <1>31, <1>32 DEF Next, ServerStep, ScriptStep

(* The lock directory.                                                     *)
LEMMA LockStep ==
  ASSUME TypeOK, LockExact, PhaseInv, Next
  PROVE  LockExact'
<1>. USE DEF TypeOK, LockExact, vars, machine, files, input, server, CutOff, Enter,
   Send, Decide,
   Finish, Close, Go, Write, Unfaulted, Inside, Unchanged, Changed, Cleanup, Rollback,
   Leaving, Sent, Ended
<1>1. ASSUME NEW t \in Tx, Begin(t) PROVE LockExact'
  BY <1>1 DEF Begin
<1>2. ASSUME NEW t \in Tx, Verify(t) PROVE LockExact'
  BY <1>2 DEF Verify
<1>3. ASSUME NEW t \in Tx, BackUp(t) PROVE LockExact'
  BY <1>3 DEF BackUp
<1>4. ASSUME NEW t \in Tx, Apply(t) PROVE LockExact'
  BY <1>4 DEF Apply, PhaseInv
<1>5. ASSUME NEW t \in Tx, RunTool(t) PROVE LockExact'
  BY <1>5 DEF RunTool, PhaseInv
<1>6. ASSUME NEW t \in Tx, Applied(t) PROVE LockExact'
  BY <1>6 DEF Applied
<1>7. ASSUME NEW t \in Tx, Probe(t) PROVE LockExact'
  BY <1>7 DEF Probe, PhaseInv
<1>8. ASSUME NEW t \in Tx, RolledBack(t) PROVE LockExact'
  BY <1>8 DEF RolledBack
<1>9. ASSUME NEW t \in Tx, Discarded(t) PROVE LockExact'
  BY <1>9 DEF Discarded
<1>10. ASSUME NEW t \in Tx, Start(t) PROVE LockExact'
  BY <1>10, TxAssumption DEF Start, MakeLock
<1>11. ASSUME NEW t \in Tx, Check(t) PROVE LockExact'
  BY <1>11 DEF Check
<1>12. ASSUME NEW t \in Tx, Copy(t) PROVE LockExact'
  BY <1>12 DEF Copy
<1>13. ASSUME NEW t \in Tx, Prepare(t) PROVE LockExact'
  BY <1>13 DEF Prepare
<1>14. ASSUME NEW t \in Tx, ValidateCandidate(t) PROVE LockExact'
  BY <1>14 DEF ValidateCandidate
<1>15. ASSUME NEW t \in Tx, Overwrite(t) PROVE LockExact'
  BY <1>15 DEF Overwrite
<1>16. ASSUME NEW t \in Tx, Reload(t) PROVE LockExact'
  BY <1>16 DEF Reload
<1>17. ASSUME NEW t \in Tx, Report(t) PROVE LockExact'
  BY <1>17 DEF Report
<1>18. ASSUME NEW t \in Tx, Restore(t) PROVE LockExact'
  BY <1>18 DEF Restore
<1>19. ASSUME NEW t \in Tx, Revive(t) PROVE LockExact'
  BY <1>19 DEF Revive
<1>20. ASSUME NEW t \in Tx, StartRollback(t) PROVE LockExact'
  BY <1>20, TxAssumption DEF StartRollback, MakeLock
<1>21. ASSUME NEW t \in Tx, CheckDigest(t) PROVE LockExact'
  BY <1>21 DEF CheckDigest
<1>22. ASSUME NEW t \in Tx, PutBack(t) PROVE LockExact'
  BY <1>22 DEF PutBack
<1>23. ASSUME NEW t \in Tx, ReloadOriginal(t) PROVE LockExact'
  BY <1>23 DEF ReloadOriginal
<1>24. ASSUME NEW t \in Tx, Leave(t) PROVE LockExact'
  BY <1>24, TxAssumption DEF Leave
<1>25. ASSUME NEW t \in Tx, Discard(t) PROVE LockExact'
  BY <1>25 DEF Discard
<1>26. ASSUME NEW t \in Tx, GiveUp(t) PROVE LockExact'
  BY <1>26 DEF GiveUp
<1>27. ASSUME NEW t \in Tx, Cancel(t) PROVE LockExact'
  BY <1>27 DEF Cancel
<1>28. ASSUME NEW t \in Tx, Signal(t) PROVE LockExact'
  BY <1>28 DEF Signal
<1>29. ASSUME NEW t \in Tx, Kill(t) PROVE LockExact'
  BY <1>29 DEF Kill, Overwriting, Running
<1>30. CASE Repair
  BY <1>30, TxAssumption DEF Repair
<1>31. ASSUME NEW e \in Edits, Edit(e) PROVE LockExact'
  BY <1>31, TxAssumption DEF Edit
<1>32. CASE Done
  BY <1>32 DEF Done
<1>. QED
  BY <1>1, <1>2, <1>3, <1>4, <1>5, <1>6, <1>7, <1>8, <1>9, <1>10, <1>11, <1>12, <1>13,
     <1>14, <1>15, <1>16, <1>17, <1>18, <1>19, <1>20, <1>21, <1>22, <1>23, <1>24, <1>25,
     <1>26, <1>27, <1>28, <1>29, <1>30, <1>31, <1>32 DEF Next, ServerStep, ScriptStep

(* Thread and script.                                                      *)
LEMMA PhaseStep ==
  ASSUME TypeOK, PhaseInv, Next
  PROVE  PhaseInv'
<1>. USE DEF TypeOK, PhaseInv, ApplyPhase, EarlyApply, RollbackPhase, DiscardPhase, vars,
   machine, files, input, server, Enter, Send, Decide, Finish, Close, Go, Write,
   Unfaulted,
   Inside, Unchanged, Changed, Cleanup, Rollback, Leaving, Sent, Ended, Waiting,
   ServerStates, ScriptStates, Results, Running
<1>1. ASSUME NEW t \in Tx, Begin(t) PROVE PhaseInv'
  BY <1>1, NoneAssumption DEF Begin
<1>2. ASSUME NEW t \in Tx, Verify(t) PROVE PhaseInv'
  BY <1>2, NoneAssumption DEF Verify
<1>3. ASSUME NEW t \in Tx, BackUp(t) PROVE PhaseInv'
  BY <1>3, NoneAssumption DEF BackUp
<1>4. ASSUME NEW t \in Tx, Apply(t) PROVE PhaseInv'
  BY <1>4, NoneAssumption DEF Apply
<1>5. ASSUME NEW t \in Tx, RunTool(t) PROVE PhaseInv'
  BY <1>5, NoneAssumption DEF RunTool
<1>6. ASSUME NEW t \in Tx, Applied(t) PROVE PhaseInv'
  BY <1>6, NoneAssumption DEF Applied
<1>7. ASSUME NEW t \in Tx, Probe(t) PROVE PhaseInv'
  BY <1>7, NoneAssumption DEF Probe
<1>8. ASSUME NEW t \in Tx, RolledBack(t) PROVE PhaseInv'
  BY <1>8, NoneAssumption DEF RolledBack
<1>9. ASSUME NEW t \in Tx, Discarded(t) PROVE PhaseInv'
  BY <1>9, NoneAssumption DEF Discarded
<1>10. ASSUME NEW t \in Tx, Start(t) PROVE PhaseInv'
  BY <1>10 DEF Start, MakeLock
<1>11. ASSUME NEW t \in Tx, Check(t) PROVE PhaseInv'
  BY <1>11 DEF Check
<1>12. ASSUME NEW t \in Tx, Copy(t) PROVE PhaseInv'
  BY <1>12 DEF Copy
<1>13. ASSUME NEW t \in Tx, Prepare(t) PROVE PhaseInv'
  BY <1>13 DEF Prepare
<1>14. ASSUME NEW t \in Tx, ValidateCandidate(t) PROVE PhaseInv'
  BY <1>14 DEF ValidateCandidate
<1>15. ASSUME NEW t \in Tx, Overwrite(t) PROVE PhaseInv'
  BY <1>15 DEF Overwrite
<1>16. ASSUME NEW t \in Tx, Reload(t) PROVE PhaseInv'
  BY <1>16 DEF Reload
<1>17. ASSUME NEW t \in Tx, Report(t) PROVE PhaseInv'
  BY <1>17 DEF Report
<1>18. ASSUME NEW t \in Tx, Restore(t) PROVE PhaseInv'
  BY <1>18 DEF Restore
<1>19. ASSUME NEW t \in Tx, Revive(t) PROVE PhaseInv'
  BY <1>19 DEF Revive
<1>20. ASSUME NEW t \in Tx, StartRollback(t) PROVE PhaseInv'
  BY <1>20 DEF StartRollback, MakeLock
<1>21. ASSUME NEW t \in Tx, CheckDigest(t) PROVE PhaseInv'
  BY <1>21 DEF CheckDigest
<1>22. ASSUME NEW t \in Tx, PutBack(t) PROVE PhaseInv'
  BY <1>22 DEF PutBack
<1>23. ASSUME NEW t \in Tx, ReloadOriginal(t) PROVE PhaseInv'
  BY <1>23 DEF ReloadOriginal
<1>24. ASSUME NEW t \in Tx, Leave(t) PROVE PhaseInv'
  BY <1>24 DEF Leave
<1>25. ASSUME NEW t \in Tx, Discard(t) PROVE PhaseInv'
  BY <1>25 DEF Discard
<1>26. ASSUME NEW t \in Tx, GiveUp(t) PROVE PhaseInv'
  BY <1>26, NoneAssumption DEF GiveUp
<1>27. ASSUME NEW t \in Tx, Cancel(t) PROVE PhaseInv'
  BY <1>27 DEF Cancel
<1>28. ASSUME NEW t \in Tx, Signal(t) PROVE PhaseInv'
  BY <1>28 DEF Signal
<1>29. ASSUME NEW t \in Tx, Kill(t) PROVE PhaseInv'
  BY <1>29 DEF Kill, Overwriting, Running
<1>30. CASE Repair
  BY <1>30 DEF Repair
<1>31. ASSUME NEW e \in Edits, Edit(e) PROVE PhaseInv'
  BY <1>31 DEF Edit
<1>32. CASE Done
  BY <1>32 DEF Done
<1>. QED
  BY <1>1, <1>2, <1>3, <1>4, <1>5, <1>6, <1>7, <1>8, <1>9, <1>10, <1>11, <1>12, <1>13,
     <1>14, <1>15, <1>16, <1>17, <1>18, <1>19, <1>20, <1>21, <1>22, <1>23, <1>24, <1>25,
     <1>26, <1>27, <1>28, <1>29, <1>30, <1>31, <1>32 DEF Next, ServerStep, ScriptStep

(* A torn file is no configuration.                                        *)
LEMMA ConfigFacts == Torn \notin Config /\ None \notin Config \cup {Torn} /\ \A c \in Config : c.edits \subseteq Edits
  BY NoneAssumption DEF Torn, Config

(* The files of a script.                                                  *)
LEMMA FilesStep ==
  ASSUME TypeOK, LockExact, PhaseInv, FilesInv, Next
  PROVE  FilesInv'
<1>. USE DEF TypeOK, FilesInv, LockExact, vars, machine, files, input, server, CutOff,
   Enter,
   Send, Decide, Finish, Close, Go, Write, Unfaulted, Inside, Unchanged, Changed, Cleanup,
   Rollback, Leaving, Sent, Ended, EarlyApply, Keeping, Copied, Readable, Failing,
   ByAdmin, AppliedBy, RestoredBy, TornBy
<1>1. ASSUME NEW t \in Tx, Begin(t) PROVE FilesInv'
  BY <1>1 DEF Begin
<1>2. ASSUME NEW t \in Tx, Verify(t) PROVE FilesInv'
  BY <1>2 DEF Verify
<1>3. ASSUME NEW t \in Tx, BackUp(t) PROVE FilesInv'
  BY <1>3 DEF BackUp
<1>4. ASSUME NEW t \in Tx, Apply(t) PROVE FilesInv'
  BY <1>4 DEF Apply, PhaseInv, ApplyPhase, RollbackPhase, DiscardPhase
<1>5. ASSUME NEW t \in Tx, RunTool(t) PROVE FilesInv'
  BY <1>5 DEF RunTool, PhaseInv, ApplyPhase, RollbackPhase, DiscardPhase
<1>6. ASSUME NEW t \in Tx, Applied(t) PROVE FilesInv'
  BY <1>6 DEF Applied
<1>7. ASSUME NEW t \in Tx, Probe(t) PROVE FilesInv'
  BY <1>7 DEF Probe, PhaseInv, ApplyPhase, RollbackPhase, DiscardPhase
<1>8. ASSUME NEW t \in Tx, RolledBack(t) PROVE FilesInv'
  BY <1>8 DEF RolledBack
<1>9. ASSUME NEW t \in Tx, Discarded(t) PROVE FilesInv'
  BY <1>9 DEF Discarded
<1>10. ASSUME NEW t \in Tx, Start(t) PROVE FilesInv'
  BY <1>10 DEF Start, MakeLock
<1>11. ASSUME NEW t \in Tx, Check(t) PROVE FilesInv'
  BY <1>11, NoneAssumption DEF Check, Torn, Plan
<1>12. ASSUME NEW t \in Tx, Copy(t) PROVE FilesInv'
  BY <1>12, ConfigFacts, TxAssumption DEF Copy
<1>13. ASSUME NEW t \in Tx, Prepare(t) PROVE FilesInv'
  <2>1. [cfg EXCEPT !.option = plan[t].recommended] \in Config
    BY <1>13 DEF Prepare, Config, Plan
  <2>. QED
    BY <1>13, <2>1, ConfigFacts, TxAssumption DEF Prepare, PhaseInv
<1>14. ASSUME NEW t \in Tx, ValidateCandidate(t) PROVE FilesInv'
  BY <1>14 DEF ValidateCandidate
<1>15. ASSUME NEW t \in Tx, Overwrite(t) PROVE FilesInv'
  BY <1>15, ConfigFacts, TxAssumption DEF Overwrite
<1>16. ASSUME NEW t \in Tx, Reload(t) PROVE FilesInv'
  BY <1>16 DEF Reload
<1>17. ASSUME NEW t \in Tx, Report(t) PROVE FilesInv'
  BY <1>17 DEF Report
<1>18. ASSUME NEW t \in Tx, Restore(t) PROVE FilesInv'
  BY <1>18, ConfigFacts, TxAssumption DEF Restore
<1>19. ASSUME NEW t \in Tx, Revive(t) PROVE FilesInv'
  BY <1>19 DEF Revive
<1>20. ASSUME NEW t \in Tx, StartRollback(t) PROVE FilesInv'
  BY <1>20 DEF StartRollback, MakeLock
<1>21. ASSUME NEW t \in Tx, CheckDigest(t) PROVE FilesInv'
  BY <1>21, ConfigFacts DEF CheckDigest
<1>22. ASSUME NEW t \in Tx, PutBack(t) PROVE FilesInv'
  BY <1>22, ConfigFacts, TxAssumption DEF PutBack
<1>23. ASSUME NEW t \in Tx, ReloadOriginal(t) PROVE FilesInv'
  BY <1>23 DEF ReloadOriginal
<1>24. ASSUME NEW t \in Tx, Leave(t) PROVE FilesInv'
  BY <1>24 DEF Leave
<1>25. ASSUME NEW t \in Tx, Discard(t) PROVE FilesInv'
  BY <1>25 DEF Discard, PhaseInv, ApplyPhase, RollbackPhase, DiscardPhase
<1>26. ASSUME NEW t \in Tx, GiveUp(t) PROVE FilesInv'
  BY <1>26 DEF GiveUp
<1>27. ASSUME NEW t \in Tx, Cancel(t) PROVE FilesInv'
  BY <1>27 DEF Cancel
<1>28. ASSUME NEW t \in Tx, Signal(t) PROVE FilesInv'
  BY <1>28 DEF Signal
<1>29. ASSUME NEW t \in Tx, Kill(t) PROVE FilesInv'
  BY <1>29, ConfigFacts, TxAssumption DEF Kill, Overwriting, Running
<1>30. CASE Repair
  BY <1>30, ConfigFacts, TxAssumption DEF Repair
<1>31. ASSUME NEW e \in Edits, Edit(e) PROVE FilesInv'
  <2>1. PICK o \in Options : cfg' = [option |-> o, edits |-> cfg.edits \cup {e}]
    BY <1>31 DEF Edit
  <2>2. cfg \in Config /\ cfg' \in Config
    BY <1>31, <2>1 DEF Edit, Config
  <2>3. author' = ByAdmin /\ UNCHANGED <<saved, script, candidate, digest, pc>>
    BY <1>31 DEF Edit
  <2>. QED
    BY <2>2, <2>3, ConfigFacts
<1>32. CASE Done
  BY <1>32 DEF Done
<1>. QED
  BY <1>1, <1>2, <1>3, <1>4, <1>5, <1>6, <1>7, <1>8, <1>9, <1>10, <1>11, <1>12, <1>13,
     <1>14, <1>15, <1>16, <1>17, <1>18, <1>19, <1>20, <1>21, <1>22, <1>23, <1>24, <1>25,
     <1>26, <1>27, <1>28, <1>29, <1>30, <1>31, <1>32 DEF Next, ServerStep, ScriptStep

(* Their contents.                                                         *)
LEMMA SettledStep ==
  ASSUME TypeOK, LockExact, PhaseInv, FilesInv, SettledInv, Next
  PROVE  SettledInv'
<1>. USE DEF TypeOK, LockExact, SettledInv, vars, machine, files, input, server, CutOff,
   Enter,
   Send, Decide, Finish, Close, Go, Write, Unfaulted, Inside, Unchanged, Changed, Cleanup,
   Rollback, Leaving, Sent, Ended, Copied, Torn, Config, ByAdmin, AppliedBy, RestoredBy,
   TornBy
<1>1. ASSUME NEW t \in Tx, Begin(t) PROVE SettledInv'
  BY <1>1 DEF Begin
<1>2. ASSUME NEW t \in Tx, Verify(t) PROVE SettledInv'
  BY <1>2 DEF Verify
<1>3. ASSUME NEW t \in Tx, BackUp(t) PROVE SettledInv'
  BY <1>3 DEF BackUp
<1>4. ASSUME NEW t \in Tx, Apply(t) PROVE SettledInv'
  BY <1>4 DEF Apply
<1>5. ASSUME NEW t \in Tx, RunTool(t) PROVE SettledInv'
  BY <1>5, SMTT(60) DEF RunTool
<1>6. ASSUME NEW t \in Tx, Applied(t) PROVE SettledInv'
  BY <1>6 DEF Applied
<1>7. ASSUME NEW t \in Tx, Probe(t) PROVE SettledInv'
  BY <1>7 DEF Probe
<1>8. ASSUME NEW t \in Tx, RolledBack(t) PROVE SettledInv'
  BY <1>8 DEF RolledBack
<1>9. ASSUME NEW t \in Tx, Discarded(t) PROVE SettledInv'
  BY <1>9 DEF Discarded
<1>10. ASSUME NEW t \in Tx, Start(t) PROVE SettledInv'
  BY <1>10, NoneAssumption, TxAssumption DEF Start, MakeLock, PhaseInv, FilesInv,
     Keeping, Readable,
     Failing, EarlyApply
<1>11. ASSUME NEW t \in Tx, Check(t) PROVE SettledInv'
  BY <1>11, SMTT(60) DEF Check
<1>12. ASSUME NEW t \in Tx, Copy(t) PROVE SettledInv'
  BY <1>12 DEF Copy, PhaseInv, FilesInv, Keeping, Readable, Failing, EarlyApply
<1>13. ASSUME NEW t \in Tx, Prepare(t) PROVE SettledInv'
  BY <1>13 DEF Prepare, PhaseInv, FilesInv, Keeping, Readable, Failing, EarlyApply
<1>14. ASSUME NEW t \in Tx, ValidateCandidate(t) PROVE SettledInv'
  BY <1>14 DEF ValidateCandidate
<1>15. ASSUME NEW t \in Tx, Overwrite(t) PROVE SettledInv'
  <2>1. CASE Write(candidate[t], AppliedBy(t)) /\ Go(t, "written") /\ Unfaulted
    BY <1>15, <2>1 DEF Overwrite, FilesInv
  <2>2. CASE Go(t, "restoring") /\ UNCHANGED <<cfg, author>>
    BY <1>15, <2>2 DEF Overwrite
  <2>3. CASE Go(t, "restoring") /\ Write(Torn, TornBy(t))
    <3>1. settled \subseteq saved[t].edits
      BY <1>15 DEF Overwrite
    <3>. QED
      BY <1>15, <2>3, <3>1 DEF Overwrite
  <2>. QED
    BY <1>15, <2>1, <2>2, <2>3 DEF Overwrite
<1>16. ASSUME NEW t \in Tx, Reload(t) PROVE SettledInv'
  BY <1>16 DEF Reload
<1>17. ASSUME NEW t \in Tx, Report(t) PROVE SettledInv'
  BY <1>17 DEF Report
<1>18. ASSUME NEW t \in Tx, Restore(t) PROVE SettledInv'
  BY <1>18, SMTT(60) DEF Restore, PhaseInv, FilesInv, Keeping, Readable, Failing, EarlyApply
<1>19. ASSUME NEW t \in Tx, Revive(t) PROVE SettledInv'
  BY <1>19 DEF Revive
<1>20. ASSUME NEW t \in Tx, StartRollback(t) PROVE SettledInv'
  BY <1>20 DEF StartRollback, MakeLock, PhaseInv, FilesInv, Keeping, Readable, Failing,
     EarlyApply
<1>21. ASSUME NEW t \in Tx, CheckDigest(t) PROVE SettledInv'
  <2>1. CASE cfg = digest[t]
    <3>1. cfg # Torn /\ digest[t] # None
      BY <1>21, <2>1, ConfigFacts DEF Torn, Config
    <3>2. saved[t] # None
      BY <1>21 DEF CheckDigest, FilesInv, Keeping
    <3>3. settled \subseteq saved[t].edits
      BY <2>1, <3>1, <3>2
    <3>. QED
      BY <1>21, <3>3 DEF CheckDigest
  <2>2. CASE cfg # digest[t]
    BY <1>21, <2>2 DEF CheckDigest
  <2>. QED
    BY <2>1, <2>2
<1>22. ASSUME NEW t \in Tx, PutBack(t) PROVE SettledInv'
  BY <1>22 DEF PutBack, PhaseInv, FilesInv, Keeping, Readable, Failing, EarlyApply
<1>23. ASSUME NEW t \in Tx, ReloadOriginal(t) PROVE SettledInv'
  BY <1>23 DEF ReloadOriginal
<1>24. ASSUME NEW t \in Tx, Leave(t) PROVE SettledInv'
  BY <1>24 DEF Leave, PhaseInv, FilesInv, Keeping, Readable, Failing, EarlyApply
<1>25. ASSUME NEW t \in Tx, Discard(t) PROVE SettledInv'
  BY <1>25 DEF Discard, PhaseInv, FilesInv, Keeping, Readable, Failing, EarlyApply
<1>26. ASSUME NEW t \in Tx, GiveUp(t) PROVE SettledInv'
  BY <1>26 DEF GiveUp
<1>27. ASSUME NEW t \in Tx, Cancel(t) PROVE SettledInv'
  BY <1>27 DEF Cancel
<1>28. ASSUME NEW t \in Tx, Signal(t) PROVE SettledInv'
  BY <1>28 DEF Signal
<1>29. ASSUME NEW t \in Tx, Kill(t) PROVE SettledInv'
  BY <1>29 DEF Kill, Overwriting, Running
<1>30. CASE Repair
  BY <1>30 DEF Repair, PhaseInv, FilesInv, Keeping, Readable, Failing, EarlyApply
<1>31. ASSUME NEW e \in Edits, Edit(e) PROVE SettledInv'
  <2>1. PICK o \in Options : cfg' = [option |-> o, edits |-> cfg.edits \cup {e}]
    BY <1>31 DEF Edit
  <2>2. cfg # Torn /\ cfg' # Torn /\ e \notin made /\ made' = made \cup {e}
    BY <1>31, <2>1, NoneAssumption DEF Edit
  <2>3. UNCHANGED <<saved, candidate, digest, script, lock>>
    BY <1>31 DEF Edit
  <2>4. settled' = settled \/ (settled' = settled \cup {e} /\ lock = None)
    BY <1>31 DEF Edit
  <2>5. settled' \subseteq cfg'.edits /\ cfg'.edits \subseteq made'
    BY <2>1, <2>2, <2>4
  <2>7. author' = ByAdmin
    BY <1>31 DEF Edit
  <2>6. ASSUME NEW t \in Tx, lock = None PROVE script[t] \notin Copied
    BY <2>6, TxAssumption DEF Copied
  <2>. QED
    BY <2>2, <2>3, <2>4, <2>5, <2>6, <2>7, TxAssumption
<1>32. CASE Done
  BY <1>32 DEF Done
<1>. QED
  BY <1>1, <1>2, <1>3, <1>4, <1>5, <1>6, <1>7, <1>8, <1>9, <1>10, <1>11, <1>12, <1>13,
     <1>14, <1>15, <1>16, <1>17, <1>18, <1>19, <1>20, <1>21, <1>22, <1>23, <1>24, <1>25,
     <1>26, <1>27, <1>28, <1>29, <1>30, <1>31, <1>32 DEF Next, ServerStep, ScriptStep

(* What a script at work says about its row.                               *)
LEMMA RowOfScript ==
  ASSUME TypeOK, PhaseInv, NEW t \in Tx
  PROVE  /\ script[t] = "discard" => result[t] \in {"applied", "restored"}
         /\ script[t] \in EarlyApply \cup Cleanup => result[t] \in {None, "lost"}
         /\ script[t] \in {"rollback"} \cup Rollback => result[t] \in {None, "manual"}
         /\ script[t] \in Leaving => result[t] \in {None, "lost", "manual"}
  BY NoneAssumption DEF TypeOK, PhaseInv, ServerStates, Waiting, Results, Running,
     ApplyPhase, EarlyApply,
     RollbackPhase, DiscardPhase, Inside, Unchanged, Changed, Cleanup, Rollback,
     Leaving, Sent, Ended

(* The author of the configuration.                                        *)
LEMMA AuthorStep ==
  ASSUME TypeOK, LockExact, PhaseInv, FilesInv, ReportsHonest, AuthorInv, Next
  PROVE  AuthorInv'
<1>. USE DEF TypeOK, LockExact, AuthorInv, vars, machine, files, input, server, CutOff,
   Enter,
   Send, Decide, Finish, Close, Go, Write, Unfaulted, Inside, Unchanged, Changed, Cleanup,
   Rollback, Leaving, Sent, Ended, Results, ByAdmin, AppliedBy, RestoredBy, TornBy, LeftBy
<1>1. ASSUME NEW t \in Tx, Begin(t) PROVE AuthorInv'
  BY <1>1 DEF Begin, ReportsHonest, FilesInv, Keeping, Copied, Readable, Failing,
     EarlyApply, PhaseInv,
     ApplyPhase, RollbackPhase, DiscardPhase
<1>2. ASSUME NEW t \in Tx, Verify(t) PROVE AuthorInv'
  BY <1>2 DEF Verify, ReportsHonest, FilesInv, Keeping, Copied, Readable, Failing,
     EarlyApply, PhaseInv,
     ApplyPhase, RollbackPhase, DiscardPhase
<1>3. ASSUME NEW t \in Tx, BackUp(t) PROVE AuthorInv'
  BY <1>3 DEF BackUp, ReportsHonest, FilesInv, Keeping, Copied, Readable, Failing,
     EarlyApply, PhaseInv,
     ApplyPhase, RollbackPhase, DiscardPhase
<1>4. ASSUME NEW t \in Tx, Apply(t) PROVE AuthorInv'
  BY <1>4 DEF Apply, ReportsHonest, FilesInv, Keeping, Copied, Readable, Failing,
     EarlyApply, PhaseInv,
     ApplyPhase, RollbackPhase, DiscardPhase
<1>5. ASSUME NEW t \in Tx, RunTool(t) PROVE AuthorInv'
  BY <1>5, SMTT(60) DEF RunTool, ReportsHonest, FilesInv, Keeping, Copied, Readable,
     Failing, EarlyApply,
     PhaseInv, ApplyPhase, RollbackPhase, DiscardPhase
<1>6. ASSUME NEW t \in Tx, Applied(t) PROVE AuthorInv'
  BY <1>6, NoneAssumption, TxAssumption, RowOfScript DEF Applied, ReportsHonest, FilesInv,
     Keeping, Copied, Readable, Failing, EarlyApply, PhaseInv, ApplyPhase,
     RollbackPhase, DiscardPhase
<1>7. ASSUME NEW t \in Tx, Probe(t) PROVE AuthorInv'
  BY <1>7 DEF Probe
<1>8. ASSUME NEW t \in Tx, RolledBack(t) PROVE AuthorInv'
  BY <1>8 DEF RolledBack, ReportsHonest, FilesInv, Keeping, Copied, Readable, Failing,
     EarlyApply, PhaseInv,
     ApplyPhase, RollbackPhase, DiscardPhase
<1>9. ASSUME NEW t \in Tx, Discarded(t) PROVE AuthorInv'
  BY <1>9 DEF Discarded
<1>10. ASSUME NEW t \in Tx, Start(t) PROVE AuthorInv'
  BY <1>10, NoneAssumption, TxAssumption, RowOfScript DEF Start, MakeLock
<1>11. ASSUME NEW t \in Tx, Check(t) PROVE AuthorInv'
  BY <1>11 DEF Check
<1>12. ASSUME NEW t \in Tx, Copy(t) PROVE AuthorInv'
  BY <1>12 DEF Copy
<1>13. ASSUME NEW t \in Tx, Prepare(t) PROVE AuthorInv'
  BY <1>13 DEF Prepare
<1>14. ASSUME NEW t \in Tx, ValidateCandidate(t) PROVE AuthorInv'
  BY <1>14 DEF ValidateCandidate
<1>15. ASSUME NEW t \in Tx, Overwrite(t) PROVE AuthorInv'
  BY <1>15 DEF Overwrite, ReportsHonest, FilesInv, Keeping, Copied, Readable, Failing,
     EarlyApply, PhaseInv,
     ApplyPhase, RollbackPhase, DiscardPhase
<1>16. ASSUME NEW t \in Tx, Reload(t) PROVE AuthorInv'
  BY <1>16 DEF Reload
<1>17. ASSUME NEW t \in Tx, Report(t) PROVE AuthorInv'
  BY <1>17 DEF Report, ReportsHonest, FilesInv, Keeping, Copied, Readable, Failing,
     EarlyApply, PhaseInv,
     ApplyPhase, RollbackPhase, DiscardPhase
<1>18. ASSUME NEW t \in Tx, Restore(t) PROVE AuthorInv'
  BY <1>18 DEF Restore, ReportsHonest, FilesInv, Keeping, Copied, Readable, Failing,
     EarlyApply, PhaseInv,
     ApplyPhase, RollbackPhase, DiscardPhase
<1>19. ASSUME NEW t \in Tx, Revive(t) PROVE AuthorInv'
  BY <1>19 DEF Revive
<1>20. ASSUME NEW t \in Tx, StartRollback(t) PROVE AuthorInv'
  BY <1>20, NoneAssumption, TxAssumption, RowOfScript DEF StartRollback, MakeLock,
     ReportsHonest, FilesInv, Keeping, Copied, Readable, Failing, EarlyApply, PhaseInv,
     ApplyPhase,
     RollbackPhase, DiscardPhase
<1>21. ASSUME NEW t \in Tx, CheckDigest(t) PROVE AuthorInv'
  BY <1>21 DEF CheckDigest, ReportsHonest, FilesInv, Keeping, Copied, Readable, Failing,
     EarlyApply,
     PhaseInv, ApplyPhase, RollbackPhase, DiscardPhase
<1>22. ASSUME NEW t \in Tx, PutBack(t) PROVE AuthorInv'
  BY <1>22 DEF PutBack, ReportsHonest, FilesInv, Keeping, Copied, Readable, Failing,
     EarlyApply, PhaseInv,
     ApplyPhase, RollbackPhase, DiscardPhase
<1>23. ASSUME NEW t \in Tx, ReloadOriginal(t) PROVE AuthorInv'
  BY <1>23 DEF ReloadOriginal, ReportsHonest, FilesInv, Keeping, Copied, Readable,
     Failing, EarlyApply,
     PhaseInv, ApplyPhase, RollbackPhase, DiscardPhase
<1>24. ASSUME NEW t \in Tx, Leave(t) PROVE AuthorInv'
  BY <1>24 DEF Leave
<1>25. ASSUME NEW t \in Tx, Discard(t) PROVE AuthorInv'
  BY <1>25, NoneAssumption, TxAssumption, RowOfScript DEF Discard, ReportsHonest,
     FilesInv, Keeping, Copied, Readable, Failing, EarlyApply, PhaseInv, ApplyPhase,
     RollbackPhase, DiscardPhase
<1>26. ASSUME NEW t \in Tx, GiveUp(t) PROVE AuthorInv'
  BY <1>26, NoneAssumption, TxAssumption, RowOfScript DEF GiveUp, ReportsHonest, FilesInv,
     Keeping, Copied, Readable, Failing, EarlyApply, PhaseInv, ApplyPhase,
     RollbackPhase, DiscardPhase
<1>27. ASSUME NEW t \in Tx, Cancel(t) PROVE AuthorInv'
  BY <1>27 DEF Cancel
<1>28. ASSUME NEW t \in Tx, Signal(t) PROVE AuthorInv'
  BY <1>28 DEF Signal
<1>29. ASSUME NEW t \in Tx, Kill(t) PROVE AuthorInv'
  BY <1>29 DEF Kill, Overwriting, Running, ReportsHonest, FilesInv, Keeping, Copied,
     Readable, Failing,
     EarlyApply, PhaseInv, ApplyPhase, RollbackPhase, DiscardPhase
<1>30. CASE Repair
  BY <1>30 DEF Repair
<1>31. ASSUME NEW e \in Edits, Edit(e) PROVE AuthorInv'
  BY <1>31 DEF Edit
<1>32. CASE Done
  BY <1>32 DEF Done
<1>. QED
  BY <1>1, <1>2, <1>3, <1>4, <1>5, <1>6, <1>7, <1>8, <1>9, <1>10, <1>11, <1>12, <1>13,
     <1>14, <1>15, <1>16, <1>17, <1>18, <1>19, <1>20, <1>21, <1>22, <1>23, <1>24, <1>25,
     <1>26, <1>27, <1>28, <1>29, <1>30, <1>31, <1>32 DEF Next, ServerStep, ScriptStep

(* Rows.                                                                   *)
LEMMA ReportsStep ==
  ASSUME TypeOK, LockExact, PhaseInv, AuthorInv, ReportsHonest, Next
  PROVE  ReportsHonest'
<1>. USE DEF TypeOK, LockExact, ReportsHonest, vars, machine, files, input, server,
   CutOff, Enter,
   Send, Decide, Finish, Close, Go, Write, Unfaulted, Inside, Unchanged, Changed, Cleanup,
   Rollback, Leaving, Sent, Ended, Results, ByAdmin, AppliedBy, RestoredBy, TornBy, LeftBy
<1>1. ASSUME NEW t \in Tx, Begin(t) PROVE ReportsHonest'
  BY <1>1 DEF Begin, Running, AuthorInv, EarlyApply, PhaseInv, ApplyPhase, RollbackPhase,
     DiscardPhase
<1>2. ASSUME NEW t \in Tx, Verify(t) PROVE ReportsHonest'
  BY <1>2 DEF Verify, Running, AuthorInv, EarlyApply, PhaseInv, ApplyPhase, RollbackPhase,
     DiscardPhase
<1>3. ASSUME NEW t \in Tx, BackUp(t) PROVE ReportsHonest'
  BY <1>3 DEF BackUp, Running, AuthorInv, EarlyApply, PhaseInv, ApplyPhase, RollbackPhase,
     DiscardPhase
<1>4. ASSUME NEW t \in Tx, Apply(t) PROVE ReportsHonest'
  BY <1>4 DEF Apply, Running, AuthorInv, EarlyApply, PhaseInv, ApplyPhase, RollbackPhase,
     DiscardPhase
<1>5. ASSUME NEW t \in Tx, RunTool(t) PROVE ReportsHonest'
  BY <1>5, SMTT(60) DEF RunTool, Running, AuthorInv, EarlyApply, PhaseInv, ApplyPhase,
     RollbackPhase, DiscardPhase
<1>6. ASSUME NEW t \in Tx, Applied(t) PROVE ReportsHonest'
  BY <1>6 DEF Applied, Running, AuthorInv, EarlyApply, PhaseInv, ApplyPhase,
     RollbackPhase, DiscardPhase
<1>7. ASSUME NEW t \in Tx, Probe(t) PROVE ReportsHonest'
  BY <1>7 DEF Probe, Running, AuthorInv, EarlyApply, PhaseInv, ApplyPhase, RollbackPhase,
     DiscardPhase
<1>8. ASSUME NEW t \in Tx, RolledBack(t) PROVE ReportsHonest'
  BY <1>8 DEF RolledBack, Running, AuthorInv, EarlyApply, PhaseInv, ApplyPhase,
     RollbackPhase, DiscardPhase
<1>9. ASSUME NEW t \in Tx, Discarded(t) PROVE ReportsHonest'
  BY <1>9 DEF Discarded
<1>10. ASSUME NEW t \in Tx, Start(t) PROVE ReportsHonest'
  BY <1>10, NoneAssumption, TxAssumption, RowOfScript DEF Start, MakeLock
<1>11. ASSUME NEW t \in Tx, Check(t) PROVE ReportsHonest'
  BY <1>11 DEF Check
<1>12. ASSUME NEW t \in Tx, Copy(t) PROVE ReportsHonest'
  BY <1>12 DEF Copy
<1>13. ASSUME NEW t \in Tx, Prepare(t) PROVE ReportsHonest'
  BY <1>13 DEF Prepare
<1>14. ASSUME NEW t \in Tx, ValidateCandidate(t) PROVE ReportsHonest'
  BY <1>14 DEF ValidateCandidate
<1>15. ASSUME NEW t \in Tx, Overwrite(t) PROVE ReportsHonest'
  BY <1>15, NoneAssumption, TxAssumption, RowOfScript DEF Overwrite, Running, AuthorInv,
     EarlyApply, PhaseInv, ApplyPhase, RollbackPhase, DiscardPhase
<1>16. ASSUME NEW t \in Tx, Reload(t) PROVE ReportsHonest'
  BY <1>16 DEF Reload
<1>17. ASSUME NEW t \in Tx, Report(t) PROVE ReportsHonest'
  BY <1>17 DEF Report
<1>18. ASSUME NEW t \in Tx, Restore(t) PROVE ReportsHonest'
  BY <1>18, NoneAssumption, TxAssumption, RowOfScript DEF Restore
<1>19. ASSUME NEW t \in Tx, Revive(t) PROVE ReportsHonest'
  BY <1>19 DEF Revive
<1>20. ASSUME NEW t \in Tx, StartRollback(t) PROVE ReportsHonest'
  BY <1>20, NoneAssumption, TxAssumption, RowOfScript DEF StartRollback, MakeLock
<1>21. ASSUME NEW t \in Tx, CheckDigest(t) PROVE ReportsHonest'
  BY <1>21 DEF CheckDigest
<1>22. ASSUME NEW t \in Tx, PutBack(t) PROVE ReportsHonest'
  BY <1>22, NoneAssumption, TxAssumption, RowOfScript DEF PutBack
<1>23. ASSUME NEW t \in Tx, ReloadOriginal(t) PROVE ReportsHonest'
  BY <1>23 DEF ReloadOriginal
<1>24. ASSUME NEW t \in Tx, Leave(t) PROVE ReportsHonest'
  BY <1>24, NoneAssumption, TxAssumption, RowOfScript DEF Leave
<1>25. ASSUME NEW t \in Tx, Discard(t) PROVE ReportsHonest'
  BY <1>25 DEF Discard
<1>26. ASSUME NEW t \in Tx, GiveUp(t) PROVE ReportsHonest'
  BY <1>26 DEF GiveUp
<1>27. ASSUME NEW t \in Tx, Cancel(t) PROVE ReportsHonest'
  BY <1>27 DEF Cancel
<1>28. ASSUME NEW t \in Tx, Signal(t) PROVE ReportsHonest'
  BY <1>28 DEF Signal
<1>29. ASSUME NEW t \in Tx, Kill(t) PROVE ReportsHonest'
  <2>1. UNCHANGED <<lock, result>>
    BY <1>29 DEF Kill
  <2>2. CASE UNCHANGED <<cfg, author>>
    BY <2>1, <2>2
  <2>3. CASE script[t] \in Overwriting /\ Write(Torn, TornBy(t))
    <3>1. result[t] \in {None, "lost", "manual"}
      BY <2>3, RowOfScript DEF Overwriting, EarlyApply
    <3>2. result[t] \notin {"applied", "restored", "failed", "unchanged", "cancelled"}
      BY <3>1, NoneAssumption
    <3>. QED
      BY <2>1, <2>3, <3>2
  <2>. QED
    BY <1>29, <2>2, <2>3 DEF Kill
<1>30. CASE Repair
  BY <1>30 DEF Repair
<1>31. ASSUME NEW e \in Edits, Edit(e) PROVE ReportsHonest'
  BY <1>31 DEF Edit
<1>32. CASE Done
  BY <1>32 DEF Done
<1>. QED
  BY <1>1, <1>2, <1>3, <1>4, <1>5, <1>6, <1>7, <1>8, <1>9, <1>10, <1>11, <1>12, <1>13,
     <1>14, <1>15, <1>16, <1>17, <1>18, <1>19, <1>20, <1>21, <1>22, <1>23, <1>24, <1>25,
     <1>26, <1>27, <1>28, <1>29, <1>30, <1>31, <1>32 DEF Next, ServerStep, ScriptStep

-----------------------------------------------------------------------------
IInv == TypeOK /\ LockExact /\ PhaseInv /\ FilesInv /\ SettledInv /\ AuthorInv /\ ReportsHonest

(* The invariant is inductive.                                             *)
LEMMA InvInit == Init => IInv
<1>. SUFFICES ASSUME Init PROVE IInv
  OBVIOUS
<1>. USE DEF Init
<1>1. cfg \in Config /\ cfg.edits = {} /\ cfg # Torn
  BY ConfigFacts DEF Config
<1>2. TypeOK
  BY <1>1, FaultsAssumption DEF TypeOK, ScriptStates, ServerStates, Authors, Plan
<1>3. LockExact /\ PhaseInv
  BY TxAssumption, NoneAssumption DEF LockExact, PhaseInv, Inside, Unchanged, Changed,
     Cleanup, Rollback, Leaving, Results
<1>4. FilesInv /\ SettledInv
  BY <1>1 DEF ByAdmin, TornBy, FilesInv, SettledInv, Keeping, Copied, Readable, Failing,
     EarlyApply, Unchanged, Changed
<1>5. AuthorInv /\ ReportsHonest
  BY NoneAssumption DEF AuthorInv, ReportsHonest, ByAdmin, AppliedBy, RestoredBy,
     TornBy, LeftBy,
     Unchanged, Changed, Results
<1>. QED
  BY <1>2, <1>3, <1>4, <1>5 DEF IInv

LEMMA InvNext == IInv /\ [Next]_vars => IInv'
<1>. SUFFICES ASSUME IInv, [Next]_vars PROVE IInv'
  OBVIOUS
<1>1. CASE Next
  BY <1>1, TypeStep, LockStep, PhaseStep, FilesStep, SettledStep, AuthorStep, ReportsStep
     DEF IInv
<1>2. CASE UNCHANGED vars
  BY <1>2 DEF IInv, vars, machine, files, input, TypeOK, LockExact, PhaseInv, Running,
     FilesInv, Keeping, LeftBy, SettledInv, AuthorInv, ReportsHonest
<1>. QED
  BY <1>1, <1>2

(* The inductive invariant: what the thread, its script, the files it left *)
(* and the author of the configuration say about each other.               *)
THEOREM InvCorrect == Spec => []IInv
  BY InvInit, InvNext, PTL DEF Spec

(* Every reachable state has the declared types; in particular no script   *)
(* ever copies a file that is not there.                                   *)
THEOREM TypeCorrect == Spec => []TypeOK
<1>1. IInv => TypeOK
  BY DEF IInv
<1>. QED
  BY <1>1, InvCorrect, PTL

(* For any number of transactions, timeouts, signals and kills: the lock   *)
(* directory is the one of the script that works on the file.              *)
THEOREM LockCorrect == Spec => []LockExact
<1>1. IInv => LockExact
  BY DEF IInv
<1>. QED
  BY <1>1, InvCorrect, PTL

(* An edit that an administrator saved while no script was at work is      *)
(* never lost to an apply or a rollback.                                   *)
THEOREM EditsSurvive == Spec => []SettledEditsSurvive
<1>1. IInv => SettledEditsSurvive
  BY DEF IInv, FilesInv, SettledInv, SettledEditsSurvive, TornBy
<1>. QED
  BY <1>1, InvCorrect, PTL

(* The original stays on the machine until the change is known to work.    *)
THEOREM OriginalKept == Spec => []OriginalAtHand
<1>1. IInv => OriginalAtHand
  BY DEF IInv, AuthorInv, OriginalAtHand
<1>. QED
  BY <1>1, InvCorrect, PTL

(* What a row says of the machine is so.                                   *)
THEOREM ReportsCorrect == Spec => []ReportsHonest
<1>1. IInv => ReportsHonest
  BY DEF IInv
<1>. QED
  BY <1>1, InvCorrect, PTL
-----------------------------------------------------------------------------
(* Lockouts, on a machine that only jobs of SERVER change.                 *)
Untouched == made = {} /\ \A t \in Tx : tool[t] = "job"

(* Then there are two values: the one that was there and the recommended   *)
(* one.  What scripts saved or put back is the former, what they prepared  *)
(* the latter.                                                             *)
TwoOptions(v) ==
  /\ cfg.option \in {v, Wanted} \/ cfg = Torn
  /\ loaded.option \in {v, Wanted}
  /\ \A t \in Tx : /\ saved[t] # None => saved[t].option = v
                   /\ candidate[t] # None => candidate[t].option = Wanted

OriginalOption(v) ==
  \A t \in Tx :
    script[t] \in {"checked", "copied", "staged", "writing", "reviving", "putback"} => cfg.option = v

AdminLoads == author = ByAdmin => loaded = cfg

(* A job that got beyond its audit found the former value, and a login     *)
(* worked with it.                                                         *)
Engaged(t) == script[t] # "none" \/ pc[t] \notin {"queued", "holding", "done"}
OptionInv(v) ==
  /\ TwoOptions(v) /\ OriginalOption(v) /\ AdminLoads
  /\ \A t \in Tx : plan[t] = Planned(plan[t].current)
  /\ \A t \in Tx : Engaged(t) => /\ v \notin barred /\ v # Wanted
                                 /\ plan[t].current = v /\ plan[t].recommended = Wanted
  /\ loaded.option # v \/ author # ByAdmin => v \notin barred

(* Who will still undo a value that refuses logins, or has reported it.    *)
Answers(t) ==
  \/ result[t] \in {"manual", "lost"}
  \/ lock = t /\ script[t] \in {"reloaded", "restoring", "reviving", "dead"}
  \/ pc[t] = "applying" /\ script[t] \in {"leaving", "ok", "sticking", "stuck"}
  \/ pc[t] = "probing"
  \/ pc[t] = "rolling" /\ script[t] \notin {"leaving", "ok"}
AnswerInv(v) ==
  loaded.option # v /\ loaded.option \in barred => author = ByAdmin \/ \E t \in Tx : Answers(t)

(* The two values.                                                         *)
LEMMA OptionStep ==
  ASSUME IInv, Untouched, Untouched', NEW v \in Options, OptionInv(v), Next
  PROVE  OptionInv(v)'
<1>. USE DEF IInv, Untouched, OptionInv, TwoOptions, OriginalOption, AdminLoads, Engaged,
     vars, machine, files, input, server, CutOff, Enter, Send, Decide, Finish, Close, Go,
     Write, Unfaulted
<1>1. ASSUME NEW t \in Tx, Begin(t) PROVE OptionInv(v)'
  BY <1>1, NoneAssumption, TxAssumption DEF Begin, TypeOK, LockExact, PhaseInv, FilesInv,
     Inside, Unchanged, Changed, Cleanup, Rollback, Leaving, Ended, Sent, Copied,
     Readable, Keeping, Failing, EarlyApply, ApplyPhase, RollbackPhase, DiscardPhase,
     ByAdmin, AppliedBy, RestoredBy, TornBy
<1>2. ASSUME NEW t \in Tx, Verify(t) PROVE OptionInv(v)'
  <2>1. UNCHANGED <<cfg, loaded, author, saved, candidate, script, plan, barred>>
    BY <1>2 DEF Verify
  <2>2. \A u \in Tx \ {t} : pc'[u] = pc[u]
    BY <1>2 DEF Verify, TypeOK
  <2>3. CASE pc'[t] = "done"
    BY <1>2, <2>1, <2>2, <2>3
  <2>4. CASE pc'[t] # "done"
    <3>1. LoginWorks /\ cfg.option = plan[t].current /\ plan[t].current # plan[t].recommended
      BY <1>2, <2>4 DEF Verify, TypeOK
    <3>2. cfg.option \in Options /\ plan[t].recommended = Wanted /\ cfg.option # Wanted
      BY <3>1, PolicyAssumption DEF Planned, TypeOK, Plan
    <3>3. cfg.option = v /\ v \notin barred
      BY <3>1, <3>2, NoneAssumption DEF LoginWorks, Torn
    <3>. QED  BY <1>2, <2>1, <2>2, <3>1, <3>2, <3>3 DEF Verify
  <2>. QED  BY <2>3, <2>4
<1>3. ASSUME NEW t \in Tx, BackUp(t) PROVE OptionInv(v)'
  BY <1>3, NoneAssumption, TxAssumption DEF BackUp, TypeOK, LockExact, PhaseInv,
     FilesInv, Inside, Unchanged, Changed, Cleanup, Rollback, Leaving, Ended, Sent,
     Copied, Readable, Keeping, Failing, EarlyApply, ApplyPhase, RollbackPhase,
     DiscardPhase, ByAdmin, AppliedBy, RestoredBy, TornBy
<1>4. ASSUME NEW t \in Tx, Apply(t) PROVE OptionInv(v)'
  BY <1>4, NoneAssumption, TxAssumption DEF Apply, TypeOK, LockExact, PhaseInv, FilesInv,
     Inside, Unchanged, Changed, Cleanup, Rollback, Leaving, Ended, Sent, Copied,
     Readable, Keeping, Failing, EarlyApply, ApplyPhase, RollbackPhase, DiscardPhase,
     ByAdmin, AppliedBy, RestoredBy, TornBy
<1>5. ASSUME NEW t \in Tx, RunTool(t) PROVE OptionInv(v)'
  BY <1>5, NoneAssumption, TxAssumption DEF RunTool, LoginWorks, TypeOK, LockExact,
     PhaseInv, FilesInv, Inside, Unchanged, Changed, Cleanup, Rollback, Leaving, Ended,
     Sent, Copied, Readable, Keeping, Failing, EarlyApply, ApplyPhase, RollbackPhase,
     DiscardPhase, ByAdmin, AppliedBy, RestoredBy, TornBy
<1>6. ASSUME NEW t \in Tx, Applied(t) PROVE OptionInv(v)'
  BY <1>6, NoneAssumption, TxAssumption DEF Applied, TypeOK, LockExact, PhaseInv,
     FilesInv, Inside, Unchanged, Changed, Cleanup, Rollback, Leaving, Ended, Sent,
     Copied, Readable, Keeping, Failing, EarlyApply, ApplyPhase, RollbackPhase,
     DiscardPhase, ByAdmin, AppliedBy, RestoredBy, TornBy
<1>7. ASSUME NEW t \in Tx, Probe(t) PROVE OptionInv(v)'
  BY <1>7, NoneAssumption, TxAssumption DEF Probe, LoginWorks, TypeOK, LockExact,
     PhaseInv, FilesInv, Inside, Unchanged, Changed, Cleanup, Rollback, Leaving, Ended,
     Sent, Copied, Readable, Keeping, Failing, EarlyApply, ApplyPhase, RollbackPhase,
     DiscardPhase, ByAdmin, AppliedBy, RestoredBy, TornBy
<1>8. ASSUME NEW t \in Tx, RolledBack(t) PROVE OptionInv(v)'
  BY <1>8, NoneAssumption, TxAssumption DEF RolledBack, TypeOK, LockExact, PhaseInv,
     FilesInv, Inside, Unchanged, Changed, Cleanup, Rollback, Leaving, Ended, Sent,
     Copied, Readable, Keeping, Failing, EarlyApply, ApplyPhase, RollbackPhase,
     DiscardPhase, ByAdmin, AppliedBy, RestoredBy, TornBy
<1>9. ASSUME NEW t \in Tx, Discarded(t) PROVE OptionInv(v)'
  BY <1>9, NoneAssumption, TxAssumption DEF Discarded, TypeOK, LockExact, PhaseInv,
     FilesInv, Inside, Unchanged, Changed, Cleanup, Rollback, Leaving, Ended, Sent,
     Copied, Readable, Keeping, Failing, EarlyApply, ApplyPhase, RollbackPhase,
     DiscardPhase, ByAdmin, AppliedBy, RestoredBy, TornBy
<1>10. ASSUME NEW t \in Tx, Start(t) PROVE OptionInv(v)'
  BY <1>10, NoneAssumption, TxAssumption DEF Start, MakeLock, TypeOK, LockExact,
     PhaseInv, FilesInv, Inside, Unchanged, Changed, Cleanup, Rollback, Leaving, Ended,
     Sent, Copied, Readable, Keeping, Failing, EarlyApply, ApplyPhase, RollbackPhase,
     DiscardPhase, ByAdmin, AppliedBy, RestoredBy, TornBy
<1>11. ASSUME NEW t \in Tx, Check(t) PROVE OptionInv(v)'
  BY <1>11, NoneAssumption, TxAssumption DEF Check, TypeOK, LockExact, PhaseInv,
     FilesInv, Inside, Unchanged, Changed, Cleanup, Rollback, Leaving, Ended, Sent,
     Copied, Readable, Keeping, Failing, EarlyApply, ApplyPhase, RollbackPhase,
     DiscardPhase, ByAdmin, AppliedBy, RestoredBy, TornBy
<1>12. ASSUME NEW t \in Tx, Copy(t) PROVE OptionInv(v)'
  BY <1>12, NoneAssumption, TxAssumption DEF Copy, TypeOK, LockExact, PhaseInv, FilesInv,
     Inside, Unchanged, Changed, Cleanup, Rollback, Leaving, Ended, Sent, Copied,
     Readable, Keeping, Failing, EarlyApply, ApplyPhase, RollbackPhase, DiscardPhase,
     ByAdmin, AppliedBy, RestoredBy, TornBy
<1>13. ASSUME NEW t \in Tx, Prepare(t) PROVE OptionInv(v)'
  BY <1>13, NoneAssumption, TxAssumption DEF Prepare, TypeOK, LockExact, PhaseInv,
     FilesInv, Inside, Unchanged, Changed, Cleanup, Rollback, Leaving, Ended, Sent,
     Copied, Readable, Keeping, Failing, EarlyApply, ApplyPhase, RollbackPhase,
     DiscardPhase, ByAdmin, AppliedBy, RestoredBy, TornBy
<1>14. ASSUME NEW t \in Tx, ValidateCandidate(t) PROVE OptionInv(v)'
  BY <1>14, NoneAssumption, TxAssumption DEF ValidateCandidate, TypeOK, LockExact,
     PhaseInv, FilesInv, Inside, Unchanged, Changed, Cleanup, Rollback, Leaving, Ended,
     Sent, Copied, Readable, Keeping, Failing, EarlyApply, ApplyPhase, RollbackPhase,
     DiscardPhase, ByAdmin, AppliedBy, RestoredBy, TornBy
<1>15. ASSUME NEW t \in Tx, Overwrite(t) PROVE OptionInv(v)'
  BY <1>15, NoneAssumption, TxAssumption DEF Overwrite, TypeOK, LockExact, PhaseInv,
     FilesInv, Inside, Unchanged, Changed, Cleanup, Rollback, Leaving, Ended, Sent,
     Copied, Readable, Keeping, Failing, EarlyApply, ApplyPhase, RollbackPhase,
     DiscardPhase, ByAdmin, AppliedBy, RestoredBy, TornBy
<1>16. ASSUME NEW t \in Tx, Reload(t) PROVE OptionInv(v)'
  BY <1>16, NoneAssumption, TxAssumption DEF Reload, TypeOK, LockExact, PhaseInv,
     FilesInv, Inside, Unchanged, Changed, Cleanup, Rollback, Leaving, Ended, Sent,
     Copied, Readable, Keeping, Failing, EarlyApply, ApplyPhase, RollbackPhase,
     DiscardPhase, ByAdmin, AppliedBy, RestoredBy, TornBy
<1>17. ASSUME NEW t \in Tx, Report(t) PROVE OptionInv(v)'
  BY <1>17, NoneAssumption, TxAssumption DEF Report, TypeOK, LockExact, PhaseInv,
     FilesInv, Inside, Unchanged, Changed, Cleanup, Rollback, Leaving, Ended, Sent,
     Copied, Readable, Keeping, Failing, EarlyApply, ApplyPhase, RollbackPhase,
     DiscardPhase, ByAdmin, AppliedBy, RestoredBy, TornBy
<1>18. ASSUME NEW t \in Tx, Restore(t) PROVE OptionInv(v)'
  BY <1>18, NoneAssumption, TxAssumption DEF Restore, TypeOK, LockExact, PhaseInv,
     FilesInv, Inside, Unchanged, Changed, Cleanup, Rollback, Leaving, Ended, Sent,
     Copied, Readable, Keeping, Failing, EarlyApply, ApplyPhase, RollbackPhase,
     DiscardPhase, ByAdmin, AppliedBy, RestoredBy, TornBy
<1>19. ASSUME NEW t \in Tx, Revive(t) PROVE OptionInv(v)'
  BY <1>19, NoneAssumption, TxAssumption DEF Revive, TypeOK, LockExact, PhaseInv,
     FilesInv, Inside, Unchanged, Changed, Cleanup, Rollback, Leaving, Ended, Sent,
     Copied, Readable, Keeping, Failing, EarlyApply, ApplyPhase, RollbackPhase,
     DiscardPhase, ByAdmin, AppliedBy, RestoredBy, TornBy
<1>20. ASSUME NEW t \in Tx, StartRollback(t) PROVE OptionInv(v)'
  BY <1>20, NoneAssumption, TxAssumption DEF StartRollback, MakeLock, TypeOK, LockExact,
     PhaseInv, FilesInv, Inside, Unchanged, Changed, Cleanup, Rollback, Leaving, Ended,
     Sent, Copied, Readable, Keeping, Failing, EarlyApply, ApplyPhase, RollbackPhase,
     DiscardPhase, ByAdmin, AppliedBy, RestoredBy, TornBy
<1>21. ASSUME NEW t \in Tx, CheckDigest(t) PROVE OptionInv(v)'
  BY <1>21, NoneAssumption, TxAssumption DEF CheckDigest, TypeOK, LockExact, PhaseInv,
     FilesInv, Inside, Unchanged, Changed, Cleanup, Rollback, Leaving, Ended, Sent,
     Copied, Readable, Keeping, Failing, EarlyApply, ApplyPhase, RollbackPhase,
     DiscardPhase, ByAdmin, AppliedBy, RestoredBy, TornBy
<1>22. ASSUME NEW t \in Tx, PutBack(t) PROVE OptionInv(v)'
  BY <1>22, NoneAssumption, TxAssumption DEF PutBack, TypeOK, LockExact, PhaseInv,
     FilesInv, Inside, Unchanged, Changed, Cleanup, Rollback, Leaving, Ended, Sent,
     Copied, Readable, Keeping, Failing, EarlyApply, ApplyPhase, RollbackPhase,
     DiscardPhase, ByAdmin, AppliedBy, RestoredBy, TornBy
<1>23. ASSUME NEW t \in Tx, ReloadOriginal(t) PROVE OptionInv(v)'
  BY <1>23, NoneAssumption, TxAssumption DEF ReloadOriginal, TypeOK, LockExact, PhaseInv,
     FilesInv, Inside, Unchanged, Changed, Cleanup, Rollback, Leaving, Ended, Sent,
     Copied, Readable, Keeping, Failing, EarlyApply, ApplyPhase, RollbackPhase,
     DiscardPhase, ByAdmin, AppliedBy, RestoredBy, TornBy
<1>24. ASSUME NEW t \in Tx, Leave(t) PROVE OptionInv(v)'
  BY <1>24, NoneAssumption, TxAssumption DEF Leave, TypeOK, LockExact, PhaseInv,
     FilesInv, Inside, Unchanged, Changed, Cleanup, Rollback, Leaving, Ended, Sent,
     Copied, Readable, Keeping, Failing, EarlyApply, ApplyPhase, RollbackPhase,
     DiscardPhase, ByAdmin, AppliedBy, RestoredBy, TornBy
<1>25. ASSUME NEW t \in Tx, Discard(t) PROVE OptionInv(v)'
  BY <1>25, NoneAssumption, TxAssumption DEF Discard, TypeOK, LockExact, PhaseInv,
     FilesInv, Inside, Unchanged, Changed, Cleanup, Rollback, Leaving, Ended, Sent,
     Copied, Readable, Keeping, Failing, EarlyApply, ApplyPhase, RollbackPhase,
     DiscardPhase, ByAdmin, AppliedBy, RestoredBy, TornBy
<1>26. ASSUME NEW t \in Tx, GiveUp(t) PROVE OptionInv(v)'
  BY <1>26, NoneAssumption, TxAssumption DEF GiveUp, TypeOK, LockExact, PhaseInv,
     FilesInv, Inside, Unchanged, Changed, Cleanup, Rollback, Leaving, Ended, Sent,
     Copied, Readable, Keeping, Failing, EarlyApply, ApplyPhase, RollbackPhase,
     DiscardPhase, ByAdmin, AppliedBy, RestoredBy, TornBy
<1>27. ASSUME NEW t \in Tx, Cancel(t) PROVE OptionInv(v)'
  BY <1>27, NoneAssumption, TxAssumption DEF Cancel, TypeOK, LockExact, PhaseInv,
     FilesInv, Inside, Unchanged, Changed, Cleanup, Rollback, Leaving, Ended, Sent,
     Copied, Readable, Keeping, Failing, EarlyApply, ApplyPhase, RollbackPhase,
     DiscardPhase, ByAdmin, AppliedBy, RestoredBy, TornBy
<1>28. ASSUME NEW t \in Tx, Signal(t) PROVE OptionInv(v)'
  BY <1>28, NoneAssumption, TxAssumption DEF Signal, TypeOK, LockExact, PhaseInv,
     FilesInv, Inside, Unchanged, Changed, Cleanup, Rollback, Leaving, Ended, Sent,
     Copied, Readable, Keeping, Failing, EarlyApply, ApplyPhase, RollbackPhase,
     DiscardPhase, ByAdmin, AppliedBy, RestoredBy, TornBy
<1>29. ASSUME NEW t \in Tx, Kill(t) PROVE OptionInv(v)'
  BY <1>29, NoneAssumption, TxAssumption DEF Kill, Overwriting, Running, TypeOK,
     LockExact, PhaseInv, FilesInv, Inside, Unchanged, Changed, Cleanup, Rollback,
     Leaving, Ended, Sent, Copied, Readable, Keeping, Failing, EarlyApply, ApplyPhase,
     RollbackPhase, DiscardPhase, ByAdmin, AppliedBy, RestoredBy, TornBy
<1>30. CASE Repair
  BY <1>30, NoneAssumption, TxAssumption DEF Repair, TypeOK, LockExact, PhaseInv,
     FilesInv, Inside, Unchanged, Changed, Cleanup, Rollback, Leaving, Ended, Sent,
     Copied, Readable, Keeping, Failing, EarlyApply, ApplyPhase, RollbackPhase,
     DiscardPhase, ByAdmin, AppliedBy, RestoredBy, TornBy
<1>31. ASSUME NEW e \in Edits, Edit(e) PROVE OptionInv(v)'
  BY <1>31, NoneAssumption, TxAssumption DEF Edit, TypeOK, LockExact, PhaseInv, FilesInv,
     Inside, Unchanged, Changed, Cleanup, Rollback, Leaving, Ended, Sent, Copied,
     Readable, Keeping, Failing, EarlyApply, ApplyPhase, RollbackPhase, DiscardPhase,
     ByAdmin, AppliedBy, RestoredBy, TornBy
<1>32. CASE Done
  BY <1>32, NoneAssumption, TxAssumption DEF Done, TypeOK, LockExact, PhaseInv, FilesInv,
     Inside, Unchanged, Changed, Cleanup, Rollback, Leaving, Ended, Sent, Copied,
     Readable, Keeping, Failing, EarlyApply, ApplyPhase, RollbackPhase, DiscardPhase,
     ByAdmin, AppliedBy, RestoredBy, TornBy
<1>. QED
  BY <1>1, <1>2, <1>3, <1>4, <1>5, <1>6, <1>7, <1>8, <1>9, <1>10, <1>11, <1>12, <1>13,
     <1>14, <1>15, <1>16, <1>17, <1>18, <1>19, <1>20, <1>21, <1>22, <1>23, <1>24, <1>25,
     <1>26, <1>27, <1>28, <1>29, <1>30, <1>31, <1>32 DEF Next, ServerStep, ScriptStep

(* Somebody answers for the value that is loaded, if everybody who did     *)
(* still does, or if the value loaded is the former one.                   *)
LEMMA AnswersKept ==
  ASSUME NEW v, AnswerInv(v), barred' = barred, loaded' = loaded,
         author = ByAdmin => author' = ByAdmin \/ \E u \in Tx : Answers(u)',
         \A u \in Tx : Answers(u) => Answers(u)'
  PROVE  AnswerInv(v)'
BY DEF AnswerInv

LEMMA OthersAnswer ==
  ASSUME NEW t \in Tx, NEW u \in Tx, u # t, Answers(u), lock' = lock,
         result'[u] = result[u], script'[u] = script[u], pc'[u] = pc[u]
  PROVE  Answers(u)'
BY DEF Answers

LEMMA AnswerStep ==
  ASSUME IInv, Untouched, Untouched', NEW v \in Options, OptionInv(v), AnswerInv(v), Next
  PROVE  AnswerInv(v)'
<1>. USE DEF IInv, Untouched, AnswerInv, Answers, vars, machine, files, input, server,
     CutOff, Enter, Send, Decide, Finish, Close, Go, Write, Unfaulted
<1>1. ASSUME NEW t \in Tx, Begin(t) PROVE AnswerInv(v)'
  <2>1. UNCHANGED <<loaded, barred, author>>
    BY <1>1 DEF Begin
  <2>2. \A u \in Tx \ {t} : Answers(u) => Answers(u)'
    BY <1>1, OthersAnswer DEF Begin, TypeOK
  <2>3. Answers(t) => Answers(t)'
    BY <1>1, NoneAssumption, TxAssumption DEF Begin, TypeOK, LockExact, PhaseInv,
     Answers, Inside, Ended, Unchanged, Changed, Cleanup, Rollback, Leaving,
     ServerStates, Waiting, ApplyPhase, EarlyApply, RollbackPhase, Results
  <2>. QED  BY <2>1, <2>2, <2>3, AnswersKept
<1>2. ASSUME NEW t \in Tx, Verify(t) PROVE AnswerInv(v)'
  <2>1. UNCHANGED <<loaded, barred, author>>
    BY <1>2 DEF Verify
  <2>2. \A u \in Tx \ {t} : Answers(u) => Answers(u)'
    BY <1>2, OthersAnswer DEF Verify, TypeOK
  <2>3. Answers(t) => Answers(t)'
    BY <1>2, NoneAssumption, TxAssumption DEF Verify, TypeOK, LockExact, PhaseInv,
     Answers, Inside, Ended, Unchanged, Changed, Cleanup, Rollback, Leaving,
     ServerStates, Waiting, ApplyPhase, EarlyApply, RollbackPhase, Results
  <2>. QED  BY <2>1, <2>2, <2>3, AnswersKept
<1>3. ASSUME NEW t \in Tx, BackUp(t) PROVE AnswerInv(v)'
  <2>1. UNCHANGED <<loaded, barred, author>>
    BY <1>3 DEF BackUp
  <2>2. \A u \in Tx \ {t} : Answers(u) => Answers(u)'
    BY <1>3, OthersAnswer DEF BackUp, TypeOK
  <2>3. Answers(t) => Answers(t)'
    BY <1>3, NoneAssumption, TxAssumption DEF BackUp, TypeOK, LockExact, PhaseInv,
     Answers, Inside, Ended, Unchanged, Changed, Cleanup, Rollback, Leaving,
     ServerStates, Waiting, ApplyPhase, EarlyApply, RollbackPhase, Results
  <2>. QED  BY <2>1, <2>2, <2>3, AnswersKept
<1>4. ASSUME NEW t \in Tx, Apply(t) PROVE AnswerInv(v)'
  <2>1. UNCHANGED <<loaded, barred, author>>
    BY <1>4 DEF Apply
  <2>2. \A u \in Tx \ {t} : Answers(u) => Answers(u)'
    BY <1>4, OthersAnswer DEF Apply, TypeOK
  <2>3. Answers(t) => Answers(t)'
    BY <1>4, NoneAssumption, TxAssumption DEF Apply, TypeOK, LockExact, PhaseInv,
     Answers, Inside, Ended, Unchanged, Changed, Cleanup, Rollback, Leaving,
     ServerStates, Waiting, ApplyPhase, EarlyApply, RollbackPhase, Results
  <2>. QED  BY <2>1, <2>2, <2>3, AnswersKept
<1>5. ASSUME NEW t \in Tx, RunTool(t) PROVE AnswerInv(v)'
  BY <1>5, NoneAssumption, TxAssumption DEF RunTool, LoginWorks, TypeOK, LockExact,
     PhaseInv, FilesInv, Inside, Unchanged, Changed, Cleanup, Rollback, Leaving, Ended,
     Sent, Copied, Readable, Keeping, Failing, EarlyApply, ApplyPhase, RollbackPhase,
     DiscardPhase, ByAdmin, AppliedBy, RestoredBy, TornBy, OptionInv, TwoOptions,
     OriginalOption, AdminLoads, Engaged
<1>6. ASSUME NEW t \in Tx, Applied(t) PROVE AnswerInv(v)'
  <2>1. UNCHANGED <<loaded, barred, author>>
    BY <1>6 DEF Applied
  <2>2. \A u \in Tx \ {t} : Answers(u) => Answers(u)'
    BY <1>6, OthersAnswer DEF Applied, TypeOK
  <2>3. Answers(t) => Answers(t)'
    BY <1>6, NoneAssumption, TxAssumption DEF Applied, TypeOK, LockExact, PhaseInv,
     Answers, Inside, Ended, Unchanged, Changed, Cleanup, Rollback, Leaving,
     ServerStates, Waiting, ApplyPhase, EarlyApply, RollbackPhase, Results
  <2>. QED  BY <2>1, <2>2, <2>3, AnswersKept
<1>7. ASSUME NEW t \in Tx, Probe(t) PROVE AnswerInv(v)'
  BY <1>7, NoneAssumption, TxAssumption DEF Probe, LoginWorks, TypeOK, LockExact,
     PhaseInv, FilesInv, Inside, Unchanged, Changed, Cleanup, Rollback, Leaving, Ended,
     Sent, Copied, Readable, Keeping, Failing, EarlyApply, ApplyPhase, RollbackPhase,
     DiscardPhase, ByAdmin, AppliedBy, RestoredBy, TornBy, OptionInv, TwoOptions,
     OriginalOption, AdminLoads, Engaged
<1>8. ASSUME NEW t \in Tx, RolledBack(t) PROVE AnswerInv(v)'
  <2>1. UNCHANGED <<loaded, barred, author, lock>>
    BY <1>8 DEF RolledBack
  <2>2. \A u \in Tx \ {t} : Answers(u) => Answers(u)'
    BY <1>8, OthersAnswer DEF RolledBack, TypeOK
  <2>3. Answers(t) => Answers(t)'
    <3>1. script[t] = "ok" => ~Answers(t)
      BY <1>8, NoneAssumption DEF RolledBack, Answers, TypeOK, PhaseInv, Results
    <3>2. script[t] # "ok" => result'[t] = "manual"
      BY <1>8 DEF RolledBack, TypeOK
    <3>. QED  BY <3>1, <3>2 DEF Answers
  <2>. QED  BY <2>1, <2>2, <2>3, AnswersKept
<1>9. ASSUME NEW t \in Tx, Discarded(t) PROVE AnswerInv(v)'
  BY <1>9, NoneAssumption, TxAssumption DEF Discarded, TypeOK, LockExact, PhaseInv,
     FilesInv, Inside, Unchanged, Changed, Cleanup, Rollback, Leaving, Ended, Sent,
     Copied, Readable, Keeping, Failing, EarlyApply, ApplyPhase, RollbackPhase,
     DiscardPhase, ByAdmin, AppliedBy, RestoredBy, TornBy, OptionInv, TwoOptions,
     OriginalOption, AdminLoads, Engaged
<1>10. ASSUME NEW t \in Tx, Start(t) PROVE AnswerInv(v)'
  BY <1>10, NoneAssumption, TxAssumption DEF Start, MakeLock, TypeOK, LockExact,
     PhaseInv, FilesInv, Inside, Unchanged, Changed, Cleanup, Rollback, Leaving, Ended,
     Sent, Copied, Readable, Keeping, Failing, EarlyApply, ApplyPhase, RollbackPhase,
     DiscardPhase, ByAdmin, AppliedBy, RestoredBy, TornBy, OptionInv, TwoOptions,
     OriginalOption, AdminLoads, Engaged
<1>11. ASSUME NEW t \in Tx, Check(t) PROVE AnswerInv(v)'
  BY <1>11, NoneAssumption, TxAssumption DEF Check, TypeOK, LockExact, PhaseInv,
     FilesInv, Inside, Unchanged, Changed, Cleanup, Rollback, Leaving, Ended, Sent,
     Copied, Readable, Keeping, Failing, EarlyApply, ApplyPhase, RollbackPhase,
     DiscardPhase, ByAdmin, AppliedBy, RestoredBy, TornBy, OptionInv, TwoOptions,
     OriginalOption, AdminLoads, Engaged
<1>12. ASSUME NEW t \in Tx, Copy(t) PROVE AnswerInv(v)'
  BY <1>12, NoneAssumption, TxAssumption DEF Copy, TypeOK, LockExact, PhaseInv, FilesInv,
     Inside, Unchanged, Changed, Cleanup, Rollback, Leaving, Ended, Sent, Copied,
     Readable, Keeping, Failing, EarlyApply, ApplyPhase, RollbackPhase, DiscardPhase,
     ByAdmin, AppliedBy, RestoredBy, TornBy, OptionInv, TwoOptions, OriginalOption,
     AdminLoads, Engaged
<1>13. ASSUME NEW t \in Tx, Prepare(t) PROVE AnswerInv(v)'
  BY <1>13, NoneAssumption, TxAssumption DEF Prepare, TypeOK, LockExact, PhaseInv,
     FilesInv, Inside, Unchanged, Changed, Cleanup, Rollback, Leaving, Ended, Sent,
     Copied, Readable, Keeping, Failing, EarlyApply, ApplyPhase, RollbackPhase,
     DiscardPhase, ByAdmin, AppliedBy, RestoredBy, TornBy, OptionInv, TwoOptions,
     OriginalOption, AdminLoads, Engaged
<1>14. ASSUME NEW t \in Tx, ValidateCandidate(t) PROVE AnswerInv(v)'
  BY <1>14, NoneAssumption, TxAssumption DEF ValidateCandidate, TypeOK, LockExact,
     PhaseInv, FilesInv, Inside, Unchanged, Changed, Cleanup, Rollback, Leaving, Ended,
     Sent, Copied, Readable, Keeping, Failing, EarlyApply, ApplyPhase, RollbackPhase,
     DiscardPhase, ByAdmin, AppliedBy, RestoredBy, TornBy, OptionInv, TwoOptions,
     OriginalOption, AdminLoads, Engaged
<1>15. ASSUME NEW t \in Tx, Overwrite(t) PROVE AnswerInv(v)'
  BY <1>15, NoneAssumption, TxAssumption DEF Overwrite, TypeOK, LockExact, PhaseInv,
     FilesInv, Inside, Unchanged, Changed, Cleanup, Rollback, Leaving, Ended, Sent,
     Copied, Readable, Keeping, Failing, EarlyApply, ApplyPhase, RollbackPhase,
     DiscardPhase, ByAdmin, AppliedBy, RestoredBy, TornBy, OptionInv, TwoOptions,
     OriginalOption, AdminLoads, Engaged
<1>16. ASSUME NEW t \in Tx, Reload(t) PROVE AnswerInv(v)'
  BY <1>16, NoneAssumption, TxAssumption DEF Reload, TypeOK, LockExact, PhaseInv,
     FilesInv, Inside, Unchanged, Changed, Cleanup, Rollback, Leaving, Ended, Sent,
     Copied, Readable, Keeping, Failing, EarlyApply, ApplyPhase, RollbackPhase,
     DiscardPhase, ByAdmin, AppliedBy, RestoredBy, TornBy, OptionInv, TwoOptions,
     OriginalOption, AdminLoads, Engaged
<1>17. ASSUME NEW t \in Tx, Report(t) PROVE AnswerInv(v)'
  <2>1. UNCHANGED <<loaded, barred, author, lock>>
    BY <1>17 DEF Report
  <2>2. \A u \in Tx \ {t} : Answers(u) => Answers(u)'
    BY <1>17, OthersAnswer DEF Report, TypeOK
  <2>3. Answers(t)'
    <3>1. lock = t /\ script[t] # "none" /\ result[t] \in {None, "lost"}
      BY <1>17, RowOfScript DEF Report, TypeOK, LockExact, Inside, EarlyApply, Changed,
     Cleanup
    <3>2. pc[t] = "applying" \/ result[t] = "lost"
      BY <1>17, <3>1, NoneAssumption DEF Report, TypeOK, PhaseInv, ServerStates, Waiting,
     Results,
         RollbackPhase, Rollback, DiscardPhase
    <3>3. script'[t] \in {"leaving", "restoring"} /\ UNCHANGED <<pc, result, lock>>
      BY <1>17 DEF Report, TypeOK
    <3>. QED  BY <3>1, <3>2, <3>3 DEF Answers
  <2>. QED  BY <2>1, <2>2, <2>3, AnswersKept
<1>18. ASSUME NEW t \in Tx, Restore(t) PROVE AnswerInv(v)'
  <2>1. UNCHANGED <<loaded, barred, lock>> /\ author' \in {author, RestoredBy(t), TornBy(t)}
    BY <1>18 DEF Restore
  <2>2. \A u \in Tx \ {t} : Answers(u) => Answers(u)'
    BY <1>18, OthersAnswer DEF Restore, TypeOK
  <2>3. Answers(t)'
    <3>1. lock = t /\ script[t] # "none" /\ result[t] \in {None, "lost"}
      BY <1>18, RowOfScript DEF Restore, TypeOK, LockExact, Inside, EarlyApply, Changed,
     Cleanup
    <3>2. pc[t] = "applying" \/ result[t] = "lost"
      BY <1>18, <3>1, NoneAssumption DEF Restore, TypeOK, PhaseInv, ServerStates,
     Waiting, Results,
         RollbackPhase, Rollback, DiscardPhase
    <3>3. script'[t] \in {"reviving", "sticking"} /\ UNCHANGED <<pc, result, lock>>
      BY <1>18 DEF Restore, TypeOK
    <3>. QED  BY <3>1, <3>2, <3>3 DEF Answers
  <2>. QED  BY <2>1, <2>2, <2>3, AnswersKept
<1>19. ASSUME NEW t \in Tx, Revive(t) PROVE AnswerInv(v)'
  <2>1. UNCHANGED <<barred, author, lock, pc, result>>
    BY <1>19 DEF Revive
  <2>2. CASE loaded' = cfg
    BY <1>19, <2>2 DEF Revive, OptionInv, OriginalOption
  <2>3. CASE loaded' = loaded /\ Go(t, "sticking")
    <3>1. \A u \in Tx \ {t} : Answers(u) => Answers(u)'
      BY <2>1, <2>3, OthersAnswer DEF TypeOK
    <3>2. pc[t] = "applying" \/ result[t] = "lost"
      BY <1>19, RowOfScript, NoneAssumption DEF Revive, TypeOK, PhaseInv, Inside,
     ServerStates,
         Waiting, Running, Results, Unchanged, Changed, Cleanup, Rollback, Leaving,
     RollbackPhase,
         DiscardPhase
    <3>3. script'[t] = "sticking"
      BY <2>3 DEF TypeOK
    <3>4. Answers(t)'
      BY <2>1, <3>2, <3>3 DEF Answers
    <3>. QED  BY <2>1, <2>3, <3>1, <3>4, AnswersKept
  <2>. QED  BY <1>19, <2>2, <2>3 DEF Revive
<1>20. ASSUME NEW t \in Tx, StartRollback(t) PROVE AnswerInv(v)'
  BY <1>20, NoneAssumption, TxAssumption DEF StartRollback, MakeLock, TypeOK, LockExact,
     PhaseInv, FilesInv, Inside, Unchanged, Changed, Cleanup, Rollback, Leaving, Ended,
     Sent, Copied, Readable, Keeping, Failing, EarlyApply, ApplyPhase, RollbackPhase,
     DiscardPhase, ByAdmin, AppliedBy, RestoredBy, TornBy, OptionInv, TwoOptions,
     OriginalOption, AdminLoads, Engaged
<1>21. ASSUME NEW t \in Tx, CheckDigest(t) PROVE AnswerInv(v)'
  BY <1>21, NoneAssumption, TxAssumption DEF CheckDigest, TypeOK, LockExact, PhaseInv,
     FilesInv, Inside, Unchanged, Changed, Cleanup, Rollback, Leaving, Ended, Sent,
     Copied, Readable, Keeping, Failing, EarlyApply, ApplyPhase, RollbackPhase,
     DiscardPhase, ByAdmin, AppliedBy, RestoredBy, TornBy, OptionInv, TwoOptions,
     OriginalOption, AdminLoads, Engaged
<1>22. ASSUME NEW t \in Tx, PutBack(t) PROVE AnswerInv(v)'
  <2>1. UNCHANGED <<loaded, barred, lock, pc, result>>
    BY <1>22 DEF PutBack
  <2>2. \A u \in Tx \ {t} : Answers(u) => Answers(u)'
    BY <1>22, OthersAnswer DEF PutBack, TypeOK
  <2>3. pc[t] = "rolling" \/ result[t] = "manual"
    BY <1>22, RowOfScript, NoneAssumption DEF PutBack, TypeOK, PhaseInv, Inside,
     ServerStates,
       Waiting, Running, Results, Unchanged, Changed, Cleanup, Rollback, Leaving,
     ApplyPhase, EarlyApply,
       Ended, DiscardPhase
  <2>4. script'[t] \in {"putback", "failing"}
    BY <1>22 DEF PutBack, TypeOK
  <2>5. Answers(t)'
    BY <2>1, <2>3, <2>4 DEF Answers
  <2>. QED  BY <2>1, <2>2, <2>5, AnswersKept
<1>23. ASSUME NEW t \in Tx, ReloadOriginal(t) PROVE AnswerInv(v)'
  BY <1>23, NoneAssumption, TxAssumption DEF ReloadOriginal, TypeOK, LockExact, PhaseInv,
     FilesInv, Inside, Unchanged, Changed, Cleanup, Rollback, Leaving, Ended, Sent,
     Copied, Readable, Keeping, Failing, EarlyApply, ApplyPhase, RollbackPhase,
     DiscardPhase, ByAdmin, AppliedBy, RestoredBy, TornBy, OptionInv, TwoOptions,
     OriginalOption, AdminLoads, Engaged
<1>24. ASSUME NEW t \in Tx, Leave(t) PROVE AnswerInv(v)'
  BY <1>24, NoneAssumption, TxAssumption DEF Leave, TypeOK, LockExact, PhaseInv,
     FilesInv, Inside, Unchanged, Changed, Cleanup, Rollback, Leaving, Ended, Sent,
     Copied, Readable, Keeping, Failing, EarlyApply, ApplyPhase, RollbackPhase,
     DiscardPhase, ByAdmin, AppliedBy, RestoredBy, TornBy, OptionInv, TwoOptions,
     OriginalOption, AdminLoads, Engaged
<1>25. ASSUME NEW t \in Tx, Discard(t) PROVE AnswerInv(v)'
  BY <1>25, NoneAssumption, TxAssumption DEF Discard, TypeOK, LockExact, PhaseInv,
     FilesInv, Inside, Unchanged, Changed, Cleanup, Rollback, Leaving, Ended, Sent,
     Copied, Readable, Keeping, Failing, EarlyApply, ApplyPhase, RollbackPhase,
     DiscardPhase, ByAdmin, AppliedBy, RestoredBy, TornBy, OptionInv, TwoOptions,
     OriginalOption, AdminLoads, Engaged
<1>26. ASSUME NEW t \in Tx, GiveUp(t) PROVE AnswerInv(v)'
  BY <1>26, NoneAssumption, TxAssumption DEF GiveUp, TypeOK, LockExact, PhaseInv,
     FilesInv, Inside, Unchanged, Changed, Cleanup, Rollback, Leaving, Ended, Sent,
     Copied, Readable, Keeping, Failing, EarlyApply, ApplyPhase, RollbackPhase,
     DiscardPhase, ByAdmin, AppliedBy, RestoredBy, TornBy, OptionInv, TwoOptions,
     OriginalOption, AdminLoads, Engaged
<1>27. ASSUME NEW t \in Tx, Cancel(t) PROVE AnswerInv(v)'
  BY <1>27, NoneAssumption, TxAssumption DEF Cancel, TypeOK, LockExact, PhaseInv,
     FilesInv, Inside, Unchanged, Changed, Cleanup, Rollback, Leaving, Ended, Sent,
     Copied, Readable, Keeping, Failing, EarlyApply, ApplyPhase, RollbackPhase,
     DiscardPhase, ByAdmin, AppliedBy, RestoredBy, TornBy, OptionInv, TwoOptions,
     OriginalOption, AdminLoads, Engaged
<1>28. ASSUME NEW t \in Tx, Signal(t) PROVE AnswerInv(v)'
  BY <1>28, NoneAssumption, TxAssumption DEF Signal, TypeOK, LockExact, PhaseInv,
     FilesInv, Inside, Unchanged, Changed, Cleanup, Rollback, Leaving, Ended, Sent,
     Copied, Readable, Keeping, Failing, EarlyApply, ApplyPhase, RollbackPhase,
     DiscardPhase, ByAdmin, AppliedBy, RestoredBy, TornBy, OptionInv, TwoOptions,
     OriginalOption, AdminLoads, Engaged
<1>29. ASSUME NEW t \in Tx, Kill(t) PROVE AnswerInv(v)'
  BY <1>29, NoneAssumption, TxAssumption DEF Kill, Overwriting, Running, TypeOK,
     LockExact, PhaseInv, FilesInv, Inside, Unchanged, Changed, Cleanup, Rollback,
     Leaving, Ended, Sent, Copied, Readable, Keeping, Failing, EarlyApply, ApplyPhase,
     RollbackPhase, DiscardPhase, ByAdmin, AppliedBy, RestoredBy, TornBy, OptionInv,
     TwoOptions, OriginalOption, AdminLoads, Engaged
<1>30. CASE Repair
  BY <1>30, NoneAssumption, TxAssumption DEF Repair, TypeOK, LockExact, PhaseInv,
     FilesInv, Inside, Unchanged, Changed, Cleanup, Rollback, Leaving, Ended, Sent,
     Copied, Readable, Keeping, Failing, EarlyApply, ApplyPhase, RollbackPhase,
     DiscardPhase, ByAdmin, AppliedBy, RestoredBy, TornBy, OptionInv, TwoOptions,
     OriginalOption, AdminLoads, Engaged
<1>31. ASSUME NEW e \in Edits, Edit(e) PROVE AnswerInv(v)'
  BY <1>31, NoneAssumption, TxAssumption DEF Edit, TypeOK, LockExact, PhaseInv, FilesInv,
     Inside, Unchanged, Changed, Cleanup, Rollback, Leaving, Ended, Sent, Copied,
     Readable, Keeping, Failing, EarlyApply, ApplyPhase, RollbackPhase, DiscardPhase,
     ByAdmin, AppliedBy, RestoredBy, TornBy, OptionInv, TwoOptions, OriginalOption,
     AdminLoads, Engaged
<1>32. CASE Done
  BY <1>32, NoneAssumption, TxAssumption DEF Done, TypeOK, LockExact, PhaseInv, FilesInv,
     Inside, Unchanged, Changed, Cleanup, Rollback, Leaving, Ended, Sent, Copied,
     Readable, Keeping, Failing, EarlyApply, ApplyPhase, RollbackPhase, DiscardPhase,
     ByAdmin, AppliedBy, RestoredBy, TornBy, OptionInv, TwoOptions, OriginalOption,
     AdminLoads, Engaged
<1>. QED
  BY <1>1, <1>2, <1>3, <1>4, <1>5, <1>6, <1>7, <1>8, <1>9, <1>10, <1>11, <1>12, <1>13,
     <1>14, <1>15, <1>16, <1>17, <1>18, <1>19, <1>20, <1>21, <1>22, <1>23, <1>24, <1>25,
     <1>26, <1>27, <1>28, <1>29, <1>30, <1>31, <1>32 DEF Next, ServerStep, ScriptStep


LockoutInv == Untouched => \E v \in Options : OptionInv(v) /\ AnswerInv(v)

LEMMA LockoutInit == Init => LockoutInv
<1>. SUFFICES ASSUME Init, Untouched PROVE \E v \in Options : OptionInv(v) /\ AnswerInv(v)
  BY DEF LockoutInv
<1>1. cfg.option \in Options /\ loaded = cfg
  BY DEF Init
<1>2. \A t \in Tx : plan[t] = Planned(plan[t].current)
  <2>. SUFFICES ASSUME NEW t \in Tx PROVE plan[t] = Planned(plan[t].current)
    OBVIOUS
  <2>1. plan[t] \in {Planned(o) : o \in Options}
    BY DEF Init, Untouched, Plans
  <2>. QED  BY <2>1 DEF Planned
<1>3. OptionInv(cfg.option) /\ AnswerInv(cfg.option)
  BY <1>1, <1>2, NoneAssumption
  DEF Init, OptionInv, TwoOptions, OriginalOption, AdminLoads, Engaged, AnswerInv
<1>. QED  BY <1>1, <1>3

LEMMA LockoutStep == IInv /\ LockoutInv /\ [Next]_vars => LockoutInv'
<1>. SUFFICES ASSUME IInv, LockoutInv, [Next]_vars, Untouched'
              PROVE  \E v \in Options : OptionInv(v)' /\ AnswerInv(v)'
  BY DEF LockoutInv
<1>1. Untouched
  <2>1. CASE Next
    <3>1. tool' = tool /\ made \subseteq made'
      BY <2>1
      DEF Next, ServerStep, ScriptStep, Begin, Verify, BackUp, Apply, RunTool, Applied, Probe,
          RolledBack, Discarded, Start, MakeLock, Check, Copy, Prepare, ValidateCandidate, Overwrite,
          Reload, Report, Restore, Revive, StartRollback, CheckDigest, PutBack, ReloadOriginal, Leave,
          Discard, GiveUp, Cancel, Signal, Kill, Edit, Repair, Done, vars, server, input
    <3>. QED  BY <3>1 DEF Untouched
  <2>2. CASE UNCHANGED vars
    BY <2>2 DEF vars, input, Untouched
  <2>. QED  BY <2>1, <2>2
<1>2. PICK v \in Options : OptionInv(v) /\ AnswerInv(v)
  BY <1>1 DEF LockoutInv
<1>3. CASE Next
  BY <1>1, <1>2, <1>3, OptionStep, AnswerStep
<1>4. CASE UNCHANGED vars
  BY <1>2, <1>4 DEF vars, machine, files, input, OptionInv, TwoOptions, OriginalOption, AdminLoads,
                    Engaged, AnswerInv, Answers
<1>. QED  BY <1>3, <1>4

(* As long as only jobs change the machine, nobody is locked out in        *)
(* silence: a value that refuses logins is undone, or some row, or the     *)
(* lock of a killed script, says so.                                       *)
THEOREM LockoutsReported == Spec => []LockoutIsReported
<1>1. LockoutInv => LockoutIsReported
  <2>. SUFFICES ASSUME LockoutInv, Quiet, author # ByAdmin, ~LoginWorks, Untouched
                PROVE  (\E t \in Tx : result[t] \in {"manual", "lost"}) \/ lock # None
    BY DEF LockoutIsReported, Untouched
  <2>1. PICK v \in Options : OptionInv(v) /\ AnswerInv(v)
    BY DEF LockoutInv
  <2>2. loaded.option # v /\ loaded.option \in barred
    BY <2>1 DEF OptionInv, LoginWorks
  <2>3. PICK t \in Tx : Answers(t)
    BY <2>1, <2>2 DEF AnswerInv
  <2>. QED  BY <2>3, TxAssumption DEF Answers, Quiet
<1>. QED  BY <1>1, LockoutInit, LockoutStep, InvCorrect, PTL DEF Spec
=============================================================================

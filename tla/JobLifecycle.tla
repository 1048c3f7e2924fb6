----------------------------- MODULE JobLifecycle -----------------------------
(***************************************************************************)
(* What SERVER promises about a management job and the operations it       *)
(* starts on remote hosts.  JobService, the job handling of                *)
(* server/service.py, implements this module across storage failures,      *)
(* crashes and restarts.                                                   *)
(***************************************************************************)
EXTENDS Naturals

CONSTANTS Jobs, Hosts

VARIABLES
  phase,            \* what an operator is shown of each job; "rejected" is shown
                    \* as failed, with the job still in the queue of the pool
  runs              \* how often a job's operation was started on a host

vars == <<phase, runs>>

Init ==
  /\ phase = [j \in Jobs |-> "none"]
  /\ runs = [j \in Jobs |-> [h \in Hosts |-> 0]]

Accept(j) ==
  /\ phase[j] = "none"
  /\ phase' = [phase EXCEPT ![j] = "active"]
  /\ UNCHANGED runs

(* The pool refused the job but kept it: it is shown as failed, and may be *)
(* taken up once after all.                                                *)
Reject(j) ==
  /\ phase[j] = "none"
  /\ phase' = [phase EXCEPT ![j] = "rejected"]
  /\ UNCHANGED runs

TakeUp(j) ==
  /\ phase[j] = "rejected"
  /\ phase' = [phase EXCEPT ![j] = "active"]
  /\ UNCHANGED runs

(* An operation starts at most once on a host, and only while the job is   *)
(* shown as active: never after it is over, never again after a restart.   *)
Start(j, h) ==
  /\ phase[j] = "active" /\ runs[j][h] = 0
  /\ runs' = [runs EXCEPT ![j][h] = 1]
  /\ UNCHANGED phase

(* Jobs end, one at a time or all together when SERVER restarts.  A job    *)
(* whose submission failed may come to light only then.                    *)
End(S) ==
  /\ phase' = [j \in Jobs |-> IF j \in S THEN "over" ELSE phase[j]]
  /\ UNCHANGED runs

Next ==
  \/ \E j \in Jobs : Accept(j) \/ Reject(j) \/ TakeUp(j) \/ \E h \in Hosts : Start(j, h)
  \/ \E S \in SUBSET Jobs : End(S)

Spec == Init /\ [][Next]_vars
===============================================================================

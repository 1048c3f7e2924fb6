----------------------------- MODULE MCAgentTasks -----------------------------
(* Small instances of AgentTasks for TLC: a task queued ahead and an        *)
(* artifact of a backup, each of a job of its own.                          *)
EXTENDS AgentTasks, TLC

CONSTANTS cmd, art, j1, j2

MCJobOf == (cmd :> j1) @@ (art :> j2)

(* Bound: one crash, of SERVER or of the device, and after it one request   *)
(* at a time.                                                               *)
Few == agentCrashes + serverCrashes + (IF Cardinality(reqs) > 1 THEN 1 ELSE 0) <= 1

MCSpec == Init /\ [][Next /\ Few']_vars
===============================================================================

------------------------------ MODULE MCScheduler -----------------------------
(* Small instances of Scheduler for TLC. *)
EXTENDS Scheduler

CONSTANTS once, daily, hourly

(* Two troubles meet only where no operator has submitted a job.            *)
Few == submitted = 0 \/ faults + crashes + closes + moves + delays <= 1

MCSpec == Init /\ [][Next /\ Few']_vars
===============================================================================

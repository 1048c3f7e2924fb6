----------------------------- MODULE MCJobService -----------------------------
(* Small instances of JobService for TLC. *)
EXTENDS JobService, TLC

CONSTANTS bak, cmd, col, h1, h2

HostSymmetry == Permutations({h1, h2})
===============================================================================

------------------------------ MODULE MCRegistry ------------------------------
(* Small instances of Registry for TLC. *)
EXTENDS Registry, TLC

CONSTANTS first, second, pc

Symmetry == Permutations(Devices)
===============================================================================

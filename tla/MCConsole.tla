------------------------------- MODULE MCConsole ------------------------------
(* One SERVER with one host and two jobs, patch plans or others, each asked *)
(* for its result: what the console shows and what its button applies.      *)
EXTENDS Console

CONSTANTS east, h1
===============================================================================
